---- MODULE Spec2Model ----
(***************************************************************************)
(* Sender-pattern learning engine of inbox-zero:                           *)
(*   src/app/api/ai/analyze-sender-pattern/route.ts  (POST, process,       *)
(*       savePatternCheck, getThreadsFromSender, getEmailAccountWithRules) *)
(*   src/app/api/google/linking/callback/route.ts:323-460                  *)
(*       (saveLearnedPattern, saveLearnedPatterns)                         *)
(*   src/app/api/google/linking/callback/route.ts:11-166  (GET, the        *)
(*       account-linking callback) and :183-299 (watchAllEmails)           *)
(* Every request is a background run of process(); a run advances from one *)
(* await to the next, and runs of different requests interleave at the     *)
(* awaits.  The persistent store (newsletter, rules, groups, groupItems)   *)
(* is shared by all runs.                                                  *)
(***************************************************************************)
EXTENDS Integers, Sequences, FiniteSets, TLC

\* ------------------------------------------------------------------ bounds
\* Requests (POST calls) of one behaviour; each may start one run.
MaxTriggers == 2
\* Messages in the sender's mailbox, over all its threads.
MaxMessages == 3
\* Patterns handed to one call of saveLearnedPatterns.
MaxPatterns == 2
\* Threads of the sender in a mailbox larger than the search returns.
MaxThreads == 11
\* Requests to the account-linking callback of one behaviour.
MaxCallbacks == 2
\* Email accounts selected by one call of watchAllEmails.
MaxAccounts == 3

\* ------------------------------------------------------- program constants
THRESHOLD_EMAILS == 3
MAX_RESULTS == 10

\* ------------------------------------------------------------------ values
NULL == "null"
\* Strings that are parsed are sequences of tokens.
SenderAddr == "news@example.com"
OtherAddr == "me@example.com"
FromBare == <<SenderAddr>>
FromNamed == <<"News", "<", SenderAddr, ">">>
FromOther == <<"Me", "<", OtherAddr, ">">>
AccountA == "A"
AccountMissing == "Z"
AccountB == "B"
RuleNewsletters == "Newsletters"
RuleDisabled == "Disabled"
RuleNoInstructions == "NoInstructions"
RuleBlank == "Blank"
RuleGone == "Gone"
RuleReceipts == "Receipts"
FROM == "FROM"

Requests == 1..MaxTriggers
Callbacks == 1..MaxCallbacks

\* A JSON value of a request body: its type and, for a string, its content.
Str(v) == [type |-> "string", value |-> v]
Undefined == [type |-> "undefined", value |-> <<>>]
\* No body was read.
NoBody == [emailAccountId |-> Undefined, from |-> Undefined]
\* The bodies POST is sent: both fields strings, the sender in one of the
\* forms `raws`; or a body without `from`.
Bodies(raws) ==
    {[emailAccountId |-> Str(id), from |-> Str(f)] :
        id \in {AccountA, AccountMissing}, f \in raws}
    \cup {[emailAccountId |-> Str(AccountA), from |-> Undefined]}
\* schema.parse: z.object({ emailAccountId: z.string(), from: z.string() })
SchemaAccepts(body) ==
    body.emailAccountId.type = "string" /\ body.from.type = "string"

\* ----------------------------------------------------------------- helpers
RECURSIVE IndexOf(_, _, _)
\* First position >= i of token t in s, or 0.
IndexOf(s, t, i) ==
    IF i > Len(s) THEN 0
    ELSE IF s[i] = t THEN i
    ELSE IndexOf(s, t, i + 1)

\* "Name <a@b>" -> "a@b"; a string without angle brackets is returned as is.
extractEmailAddress(s) ==
    LET lt == IndexOf(s, "<", 1)
        gt == IF lt = 0 THEN 0 ELSE IndexOf(s, ">", lt + 1)
    IN  IF lt # 0 /\ gt # 0 THEN SubSeq(s, lt + 1, gt - 1) ELSE s

RECURSIVE Flatten(_)
\* threadsWithMessages.flatMap((thread) => thread.messages)
Flatten(ts) ==
    IF ts = <<>> THEN <<>> ELSE ts[1].messages \o Flatten(Tail(ts))

\* The first n elements of s.
Take(s, n) == IF Len(s) <= n THEN s ELSE SubSeq(s, 1, n)

\* `from:${from} -label:sent -label:draft`, line 216.
Query(sender) == <<"from:">> \o sender \o <<"-label:sent", "-label:draft">>
\* The address a query of that form asks for.
QueryFrom(q) == SubSeq(q, 2, Len(q) - 2)

RECURSIVE Matching(_, _, _)
\* The threads of a mailbox, from position i on, that hold a message of the
\* address the query asks for; a thread is named by its position.
Matching(box, q, i) ==
    IF i > Len(box) THEN <<>>
    ELSE (IF \E m \in 1..Len(box[i]) :
                 extractEmailAddress(box[i][m]) = QueryFrom(q)
          THEN <<i>> ELSE <<>>) \o Matching(box, q, i + 1)

RECURSIVE MessageCount(_)
\* Messages of a mailbox, over all its threads.
MessageCount(m) == IF m = <<>> THEN 0 ELSE Len(m[1]) + MessageCount(Tail(m))

\* ---------------------------------------------------------- bounded inputs
Headers == {FromBare, FromNamed, FromOther}
\* A thread found by "from:<sender>" holds a message of the sender.
ThreadsUpTo(n) ==
    UNION {{t \in [1..k -> Headers] :
              \E i \in 1..k : extractEmailAddress(t[i]) = FromBare} : k \in 1..n}

RECURSIVE MailboxesUpTo(_)
\* The mailboxes of at most n messages: sequences of threads.
MailboxesUpTo(n) ==
    IF n = 0 THEN {<<>>}
    ELSE {<<>>} \cup
         UNION {{<<t>> \o m : m \in MailboxesUpTo(n - Len(t))} : t \in ThreadsUpTo(n)}

Mailboxes == MailboxesUpTo(MaxMessages)
\* The mailboxes under which concurrent runs are explored: no thread, a
\* conversation after a one-way thread, too few messages, enough messages.
SharedMailboxes ==
    { <<>>,
      <<<<FromNamed>>, <<FromBare, FromOther>>>>,
      <<<<FromNamed, FromBare>>>>,
      <<<<FromNamed>>, <<FromBare, FromNamed>>>> }

\* ------------------------------------------------------------------- state
VARIABLES
    account,              \* emailAccount A's OAuth account: tokens
    rules,                \* Rule rows
    groups,               \* Group rows (Grouping Containers)
    groupItems,           \* GroupItem rows (Grouping Criteria)
    newsletter,           \* Newsletter rows (Sender Checks)
    now,                  \* the clock read by new Date()
    mailbox,              \* the provider's threads matching "from:<sender>"
    allowed,              \* number of requests the environment sends
    patterns,             \* the patterns argument saveLearnedPatterns is given
    bulk,                 \* the call of saveLearnedPatterns: its await and locals
    pc,                   \* per request: the await its run is at
    lastAnalyzedAt,       \* per run: the new Date() savePatternCheck was called with
    reqAccountId,         \* per request: body.emailAccountId
    from,                 \* per request: extractEmailAddress(body.from)
    emailAccount,         \* per run: result of getEmailAccountWithRules
    threads,              \* per run: thread ids returned by getThreads
    idx,                  \* per run: position of the for loop in threads
    collected,            \* per run: getThreadsFromSender's threadsWithMessages
    threadsWithMessages,  \* per run: process's threadsWithMessages (the result)
    patternResult,        \* per run: matchedRule returned by the oracle
    rule,                 \* per run: saveLearnedPattern's rule.id (0: none)
    groupId,              \* per run: saveLearnedPattern's local groupId
    outcome,              \* per run: how process() ended
    error,                \* per run: what was thrown into the catch branch
    response,             \* per request: what POST answered
    hist,                 \* per run: what the run has done so far (history)
    store0,               \* the store before the first request (history)
    users,                \* User rows
    accounts,             \* Account rows (the linked Google accounts)
    emailAccounts,        \* EmailAccount rows: owner, name and email
    cookie,               \* the browser's linking state cookie
    callback,             \* per callback request: its await, inputs, locals, answer
    watchRows,            \* EmailAccount rows as watchAllEmails selects them
    watch                 \* the call of watchAllEmails: its await, locals, history

store == <<account, rules, groups, groupItems, newsletter, now>>
linking == <<users, accounts, emailAccounts, cookie, callback>>
watching == <<watchRows, watch>>
env == <<mailbox, allowed, patterns, bulk, linking, watching>>
locals == <<emailAccount, threads, idx, collected, threadsWithMessages, patternResult, rule, groupId>>
request == <<reqAccountId, from, response>>
vars == <<store, env, pc, lastAnalyzedAt, request, locals, outcome, error, hist, store0>>

\* No call of saveLearnedPatterns is made.
NoBulk == [pc |-> "off", ruleName |-> NULL, rule |-> 0, groupId |-> 0, idx |-> 0]
NoAccount == [id |-> NULL, access_token |-> NULL, refresh_token |-> NULL, rules |-> {}]
\* Calls made to the collaborators and the stores; the ledger as it was when
\* the run read it and the clock at that read; the clock at the run's ledger
\* write; whether the pattern was stored when saveLearnedPattern was called;
\* whether the request's key was valid, and the body request.json() read.
NoHist ==
    [getThreads |-> 0, getThreadMessages |-> 0, oracle |-> 0,
     newsletterUpsert |-> 0, groupCreate |-> 0, groupItemUpsert |-> 0,
     ledgerAtCheck |-> "unread", checkedAt |-> 0, wroteAt |-> 0,
     storedAtCall |-> FALSE, keyValid |-> FALSE, body |-> NoBody,
     query |-> <<>>, maxResults |-> 0]

\* ---------------------------------------------------------- store queries
\* prisma.emailAccount.findUnique({ where: { id } }) with the rules selection
\* where: { enabled: true, instructions: { not: null } }.
getEmailAccountWithRules(id) ==
    IF id = AccountA
    THEN [id |-> AccountA,
          access_token |-> account.access_token,
          refresh_token |-> account.refresh_token,
          rules |-> {r.name : r \in {x \in rules :
                        /\ x.emailAccountId = id
                        /\ x.enabled
                        /\ x.instructions # NULL}}]
    ELSE NoAccount

\* prisma.newsletter.findUnique({ where: { email_emailAccountId } })
NewsletterRows(email, acct) ==
    {n \in newsletter : n.email = email /\ n.emailAccountId = acct}

\* existingCheck?.patternAnalyzed
PatternAnalyzed(email, acct) ==
    \E n \in NewsletterRows(email, acct) : n.patternAnalyzed

\* prisma.rule.findUnique({ where: { name_emailAccountId } })
RuleRows(name, acct) ==
    {r \in rules : r.name = name /\ r.emailAccountId = acct}

\* Mutant: the upsert stamps the row but leaves patternAnalyzed false.
NewsletterUpsert_NotAnalyzed(rows, email, acct, t) ==
    LET hit == {n \in rows : n.email = email /\ n.emailAccountId = acct}
        row == [email |-> email, emailAccountId |-> acct,
                patternAnalyzed |-> FALSE, lastAnalyzedAt |-> t]
    IN  (rows \ hit) \cup {row}

\* Mutant: a create where the upsert should be.
NewsletterUpsert_Create(rows, email, acct, t) ==
    rows \cup {[email |-> email, emailAccountId |-> acct,
                patternAnalyzed |-> TRUE, lastAnalyzedAt |-> t]}

\* Mutant: the row is looked up by the sender's address alone.
NewsletterUpsert_ByEmail(rows, email, acct, t) ==
    LET hit == {n \in rows : n.email = email}
        row == [email |-> email, emailAccountId |-> acct,
                patternAnalyzed |-> TRUE, lastAnalyzedAt |-> t]
    IN  (rows \ hit) \cup {row}

\* prisma.newsletter.upsert: update the row of the key, or create it.
NewsletterUpsert(rows, email, acct, t) ==
    LET hit == {n \in rows : n.email = email /\ n.emailAccountId = acct}
        row == [email |-> email, emailAccountId |-> acct,
                patternAnalyzed |-> TRUE, lastAnalyzedAt |-> t]
    IN  (rows \ hit) \cup {row}

\* Mutant: an insert where the upsert should be.
GroupItemUpsert_Insert(rows, gid, type, value) ==
    rows \cup {[id |-> Cardinality(rows) + 1, groupId |-> gid,
                type |-> type, value |-> value, exclude |-> FALSE]}

\* Mutant: the new row is created as an exclusion.
GroupItemUpsert_Excluding(rows, gid, type, value) ==
    IF \E i \in rows : i.groupId = gid /\ i.type = type /\ i.value = value
    THEN rows
    ELSE rows \cup {[id |-> Cardinality(rows) + 1, groupId |-> gid,
                     type |-> type, value |-> value, exclude |-> TRUE]}

\* prisma.groupItem.upsert with update: {}: an existing row is left as it is,
\* a new row takes the default exclude = false.
GroupItemUpsert(rows, gid, type, value) ==
    IF \E i \in rows : i.groupId = gid /\ i.type = type /\ i.value = value
    THEN rows
    ELSE rows \cup {[id |-> Cardinality(rows) + 1, groupId |-> gid,
                     type |-> type, value |-> value, exclude |-> FALSE]}

\* pattern.exclude || false, the flag given as it is written in the argument.
OrFalse(exclude) == exclude = "true"

\* Mutant: the bulk path updates nothing either.
GroupItemUpsertExclude_Keep(rows, gid, type, value, exclude) ==
    IF \E i \in rows : i.groupId = gid /\ i.type = type /\ i.value = value
    THEN rows
    ELSE rows \cup {[id |-> Cardinality(rows) + 1, groupId |-> gid,
                     type |-> type, value |-> value, exclude |-> OrFalse(exclude)]}

\* prisma.groupItem.upsert with update: { exclude: pattern.exclude || false }:
\* an existing row takes the flag of the pattern, a new row is created with it.
GroupItemUpsertExclude(rows, gid, type, value, exclude) ==
    LET hit == {i \in rows : i.groupId = gid /\ i.type = type /\ i.value = value}
    IN  IF hit # {}
        THEN (rows \ hit) \cup {[i EXCEPT !.exclude = OrFalse(exclude)] : i \in hit}
        ELSE rows \cup {[id |-> Cardinality(rows) + 1, groupId |-> gid,
                         type |-> type, value |-> value,
                         exclude |-> OrFalse(exclude)]}

\* The uniqueness constraint of the rule -> container link: a rule has at most
\* one container, so creating a second one for it is refused by the store.
GroupCreateConflict(ruleRow) == ruleRow.groupId # 0

\* Mutant: the From header is compared without extracting its address.
hasOtherSenders_Raw(messages, sender) ==
    \E i \in 1..Len(messages) : messages[i] # sender

\* senders.some((s) => s !== from)
hasOtherSenders(messages, sender) ==
    \E i \in 1..Len(messages) : extractEmailAddress(messages[i]) # sender
\* ------------------------------------------- linking callback: values, store
UserTarget == "u1"
UserOther == "u2"
\* The state cookie: the base64url encoding of a JSON text.  A string is a
\* sequence of tokens; an encoded string starts with the token "b64".
Base64UrlEncode(text) == <<"b64">> \o text
\* Buffer.from(s, "base64url").toString("utf8"): the text that was encoded;
\* of a string that is no encoding, bytes that are no JSON text.
Base64UrlDecode(s) ==
    IF s # <<>> /\ Head(s) = "b64" THEN Tail(s) ELSE <<"?">>
\* JSON.stringify({ userId, ... })
JSONStringify(userId) == <<"{", "userId", ":", userId, "}">>
\* JSON.parse: an object with its userId, the value null, or a SyntaxError.
JSONParse(text) ==
    IF text = <<"null">>
    THEN [ok |-> TRUE, kind |-> "null", userId |-> NULL]
    ELSE IF /\ Len(text) = 5
            /\ text[1] = "{" /\ text[2] = "userId" /\ text[3] = ":" /\ text[5] = "}"
         THEN [ok |-> TRUE, kind |-> "object", userId |-> text[4]]
         ELSE [ok |-> FALSE, kind |-> "SyntaxError", userId |-> NULL]

\* The state the linking flow issued for the target user; a cookie that is
\* no encoded JSON; a cookie that encodes the JSON value null.
StateOf(userId) == Base64UrlEncode(JSONStringify(userId))
StateGarbage == <<"xyz">>
StateJsonNull == Base64UrlEncode(<<"null">>)
\* A query parameter or cookie that is absent, or the empty string: !x holds.
NoValue == <<>>
Falsy(x) == x = NoValue

\* The messages of the errors thrown into the catch branch of GET.
MsgVerification == "ID token verification failed: "
MsgMissingIdToken == "Missing id_token from Google response"
MsgIncomplete == "ID token missing required subject (sub) or email claim."
MsgMissingAccessToken == "Missing access_token"
MsgOther == "other"
\* GET, line 148-157: the error code of a caught error, from its message.
ErrorCode(message) ==
    IF message = MsgVerification THEN "invalid_id_token"
    ELSE IF message = MsgMissingIdToken THEN "missing_id_token"
    ELSE IF message = MsgIncomplete THEN "incomplete_id_token"
    ELSE IF message = MsgMissingAccessToken THEN "token_exchange_failed"
    ELSE "link_failed"

\* findUnique found no account.
NoExisting ==
    [id |-> NULL, userId |-> NULL, user |-> [name |-> NULL, email |-> NULL]]
\* A callback request that was not sent.
NoCallback ==
    [pc |-> "unsent", code |-> NoValue, receivedState |-> NoValue,
     storedState |-> NoValue, targetUserId |-> NULL, verified |-> FALSE,
     providerAccountId |-> NULL, providerEmail |-> NULL,
     existingAccount |-> NoExisting, result |-> "none", deletesCookie |-> FALSE]

\* No callback request is sent.
NoLinking ==
    /\ users = {}
    /\ accounts = {}
    /\ emailAccounts = {}
    /\ cookie = NoValue
    /\ callback = [c \in Callbacks |-> NoCallback]

\* prisma.account.findUnique({ where: { provider_providerAccountId } }) with
\* the selection id, userId, user: { name, email }.
FindAccount(providerAccountId) ==
    LET found == {a \in accounts : a.providerAccountId = providerAccountId}
    IN  IF found = {} THEN NoExisting
        ELSE LET a == CHOOSE x \in found : TRUE
                 u == CHOOSE x \in users : x.id = a.userId
             IN  [id |-> a.id, userId |-> a.userId,
                  user |-> [name |-> u.name, email |-> u.email]]

\* The three writes of the merge find the rows they name: the account, the
\* email account of the account, the original user.
MergeRowsExist(existing) ==
    /\ \E a \in accounts : a.id = existing.id
    /\ \E e \in emailAccounts : e.accountId = existing.id
    /\ \E u \in users : u.id = existing.userId

\* prisma.account.update({ where: { id }, data: { userId } })
AccountUpdate(rows, id, userId) ==
    {IF a.id = id THEN [a EXCEPT !.userId = userId] ELSE a : a \in rows}
\* prisma.emailAccount.update({ where: { accountId }, data: { userId, name, email } })
EmailAccountUpdate(rows, accountId, userId, name, email) ==
    {IF e.accountId = accountId
     THEN [e EXCEPT !.userId = userId, !.name = name, !.email = email]
     ELSE e : e \in rows}
\* prisma.user.delete({ where: { id } })
UserDelete(rows, id) == {u \in rows : u.id # id}

\* ------------------------------------------------ watchAllEmails: the call
\* watchEmailsExpirationDate: null, or a time of the clock.
NoDate == 0
PastDate == 1
WatchNow == 5
FutureDate == 9
\* orderBy: { watchEmailsExpirationDate: { sort: "asc", nulls: "first" } }
NullsFirstLeq(a, b) == a = NoDate \/ (b # NoDate /\ a <= b)
\* where: { user: { premium: { OR: [...] } } }: the rows of paying users.
Selected(rows) == {x \in rows : x.premium}
\* The results prisma.emailAccount.findMany may return: every selected row
\* once, in the order of the expiration dates, rows of equal date in any order.
FindMany(rows) ==
    LET sel == Selected(rows)
        n == Cardinality(sel)
    IN  {s \in [1..n -> sel] :
            /\ \A i, j \in 1..n : s[i] = s[j] => i = j
            /\ \A i, j \in 1..n : i < j =>
                   NullsFirstLeq(s[i].watchEmailsExpirationDate,
                                 s[j].watchEmailsExpirationDate)}
\* No call of watchAllEmails is made.  Of a call: its await, the query
\* result, the position of the for loop; and, as history, the accounts
\* visited, those watchEmails was called for, those whose date was cleared,
\* and the exceptions caught.
NoWatch ==
    [pc |-> "off", emailAccounts |-> <<>>, i |-> 0, visited |-> <<>>,
     watched |-> <<>>, cleared |-> <<>>, caught |-> 0]
NoWatching ==
    /\ watchRows = {}
    /\ watch = NoWatch
\* ------------------------------------------------------------ initial state
RuleRow(id, name, gid) ==
    [id |-> id, name |-> name, emailAccountId |-> AccountA, groupId |-> gid,
     enabled |-> TRUE, instructions |-> "newsletters and digests"]

\* What the rest of the application may have stored before the first request:
\* the rule without a container, with an empty one, or with one that already
\* excludes the sender.
StoredGroups ==
    { [rules |-> {RuleRow(1, RuleNewsletters, 0)}, groups |-> {}, groupItems |-> {}],
      [rules |-> {RuleRow(1, RuleNewsletters, 1)},
       groups |-> {[id |-> 1, name |-> RuleNewsletters, emailAccountId |-> AccountA]},
       groupItems |-> {}],
      [rules |-> {RuleRow(1, RuleNewsletters, 1)},
       groups |-> {[id |-> 1, name |-> RuleNewsletters, emailAccountId |-> AccountA]},
       groupItems |-> {[id |-> 1, groupId |-> 1, type |-> FROM,
                        value |-> FromBare, exclude |-> TRUE]}] }

\* The sender's row may exist already (written by the unsubscribe features),
\* analyzed or not.
StoredNewsletters ==
    { {},
      {[email |-> FromBare, emailAccountId |-> AccountA,
        patternAnalyzed |-> FALSE, lastAnalyzedAt |-> 0]},
      {[email |-> FromBare, emailAccountId |-> AccountA,
        patternAnalyzed |-> TRUE, lastAnalyzedAt |-> 0]} }

StoredAccounts ==
    { [access_token |-> "at", refresh_token |-> "rt"],
      [access_token |-> NULL, refresh_token |-> "rt"],
      [access_token |-> "at", refresh_token |-> NULL] }

InitRuns ==
    /\ pc = [r \in Requests |-> "idle"]
    /\ lastAnalyzedAt = [r \in Requests |-> 0]
    /\ reqAccountId = [r \in Requests |-> NULL]
    /\ from = [r \in Requests |-> <<>>]
    /\ response = [r \in Requests |-> "none"]
    /\ emailAccount = [r \in Requests |-> NoAccount]
    /\ threads = [r \in Requests |-> <<>>]
    /\ idx = [r \in Requests |-> 0]
    /\ collected = [r \in Requests |-> <<>>]
    /\ threadsWithMessages = [r \in Requests |-> <<>>]
    /\ patternResult = [r \in Requests |-> NULL]
    /\ rule = [r \in Requests |-> 0]
    /\ groupId = [r \in Requests |-> 0]
    /\ outcome = [r \in Requests |-> "none"]
    /\ error = [r \in Requests |-> "none"]
    /\ hist = [r \in Requests |-> NoHist]

InitStore(gs, ns, as) ==
    /\ account \in as
    /\ \E g \in gs :
         /\ rules = g.rules
         /\ groups = g.groups
         /\ groupItems = g.groupItems
    /\ newsletter \in ns
    /\ now = 1
    /\ store0 = [rules |-> rules, groups |-> groups, groupItems |-> groupItems,
                 newsletter |-> newsletter]

\* Concurrent requests over a few mailboxes.
Init ==
    /\ InitStore(StoredGroups, StoredNewsletters, StoredAccounts)
    /\ mailbox \in SharedMailboxes
    /\ allowed = MaxTriggers
    /\ patterns = <<>>
    /\ bulk = NoBulk
    /\ InitRuns
    /\ NoLinking
    /\ NoWatching

\* One request over every mailbox of the bound.
InitOne ==
    /\ InitStore(StoredGroups, StoredNewsletters, StoredAccounts)
    /\ mailbox \in Mailboxes
    /\ allowed = 1
    /\ patterns = <<>>
    /\ bulk = NoBulk
    /\ InitRuns
    /\ NoLinking
    /\ NoWatching

\* Triggers repeated while the world changes: the account is without its
\* access token or its refresh token until it is linked again, the rule has no container, the
\* mailbox is empty or a conversation and grows as mail arrives.
RetryMailboxes ==
    { <<>>,
      <<<<FromBare, FromOther>>>> }

InitRetry ==
    /\ InitStore({[rules |-> {RuleRow(1, RuleNewsletters, 0)},
                   groups |-> {}, groupItems |-> {}]},
                 {{}},
                 {[access_token |-> NULL, refresh_token |-> "rt"],
                  [access_token |-> "at", refresh_token |-> NULL]})
    /\ mailbox \in RetryMailboxes
    /\ allowed = MaxTriggers
    /\ patterns = <<>>
    /\ bulk = NoBulk
    /\ InitRuns
    /\ NoLinking
    /\ NoWatching

\* The patterns a caller of saveLearnedPatterns asserts: the sender's address
\* with the exclude flag true, false or omitted, or a subject; the list may
\* be empty.
PatternArgs ==
    {[type |-> FROM, value |-> FromBare, exclude |-> x] :
        x \in {"true", "false", "undefined"}}
    \cup {[type |-> "SUBJECT", value |-> <<"Weekly">>, exclude |-> "true"]}
PatternLists == UNION {[1..n -> PatternArgs] : n \in 0..MaxPatterns}

\* One request and one call of saveLearnedPatterns over the same stores; the
\* mailbox holds three one-way messages.
InitPatterns ==
    /\ InitStore(StoredGroups, {{}}, {[access_token |-> "at", refresh_token |-> "rt"]})
    /\ mailbox = <<<<FromNamed>>, <<FromBare, FromNamed>>>>
    /\ allowed = 1
    /\ patterns \in PatternLists
    /\ \E name \in {RuleNewsletters, RuleGone} :
          bulk = [NoBulk EXCEPT !.pc = "findRule", !.ruleName = name]
    /\ InitRuns
    /\ NoLinking
    /\ NoWatching

\* Rules an account may hold besides Newsletters: a disabled rule, a rule
\* without instructions (null), a rule whose instructions are the empty string.
OtherRules ==
    { [RuleRow(2, RuleDisabled, 0) EXCEPT !.enabled = FALSE],
      [RuleRow(3, RuleNoInstructions, 0) EXCEPT !.instructions = NULL],
      [RuleRow(4, RuleBlank, 0) EXCEPT !.instructions = ""] }

\* One request for an account with any of these rules; the mailbox holds
\* three one-way messages.
InitRules ==
    /\ InitStore({[rules |-> {RuleRow(1, RuleNewsletters, 0)} \cup others,
                   groups |-> {}, groupItems |-> {}] : others \in SUBSET OtherRules},
                 {{}},
                 {[access_token |-> "at", refresh_token |-> "rt"]})
    /\ mailbox = <<<<FromNamed>>, <<FromBare, FromNamed>>>>
    /\ allowed = 1
    /\ patterns = <<>>
    /\ bulk = NoBulk
    /\ InitRuns
    /\ NoLinking
    /\ NoWatching

\* Mailboxes of up to MaxThreads one-way threads of one message, and one of
\* MAX_RESULTS threads whose last one is a conversation.
FanOutMailboxes ==
    {[i \in 1..n |-> <<FromNamed>>] : n \in 0..MaxThreads}
    \cup {[i \in 1..MAX_RESULTS |->
             IF i = MAX_RESULTS THEN <<FromBare, FromOther>> ELSE <<FromNamed>>]}

\* One request over a large mailbox.
InitFanOut ==
    /\ InitStore({[rules |-> {RuleRow(1, RuleNewsletters, 0)},
                   groups |-> {}, groupItems |-> {}]},
                 {{}},
                 {[access_token |-> "at", refresh_token |-> "rt"]})
    /\ mailbox \in FanOutMailboxes
    /\ allowed = 1
    /\ patterns = <<>>
    /\ bulk = NoBulk
    /\ InitRuns
    /\ NoLinking
    /\ NoWatching

\* Concurrent requests from the stores that lead to each way process() ends:
\* the row absent or analyzed, the account with or without its access token,
\* the rule without a container, every shared mailbox.
InitLive ==
    /\ InitStore({[rules |-> {RuleRow(1, RuleNewsletters, 0)},
                   groups |-> {}, groupItems |-> {}]},
                 {{}, {[email |-> FromBare, emailAccountId |-> AccountA,
                        patternAnalyzed |-> TRUE, lastAnalyzedAt |-> 0]}},
                 {[access_token |-> "at", refresh_token |-> "rt"],
                  [access_token |-> NULL, refresh_token |-> "rt"]})
    /\ mailbox \in SharedMailboxes
    /\ allowed = MaxTriggers
    /\ patterns = <<>>
    /\ bulk = NoBulk
    /\ InitRuns
    /\ NoLinking
    /\ NoWatching

\* Concurrent requests for an account with two rules the oracle may name,
\* neither with a container; the mailbox holds three one-way messages.
InitVerdicts ==
    /\ InitStore({[rules |-> {RuleRow(1, RuleNewsletters, 0),
                              [RuleRow(2, RuleReceipts, 0) EXCEPT
                                  !.instructions = "receipts and invoices"]},
                   groups |-> {}, groupItems |-> {}]},
                 {{}},
                 {[access_token |-> "at", refresh_token |-> "rt"]})
    /\ mailbox = <<<<FromNamed>>, <<FromBare, FromNamed>>>>
    /\ allowed = MaxTriggers
    /\ patterns = <<>>
    /\ bulk = NoBulk
    /\ InitRuns
    /\ NoLinking
    /\ NoWatching

\* What two accounts may have stored: account B has a rule of the same name
\* as A's, with a container that excludes the sender, and a Sender Check row
\* of the sender; A has a second rule, Receipts, whose container excludes the
\* sender; A's rule Newsletters is without a container or has an empty one.
OwnedStores ==
    LET others ==
            {[RuleRow(2, RuleReceipts, 2) EXCEPT
                 !.instructions = "receipts and invoices"],
             [RuleRow(3, RuleNewsletters, 1) EXCEPT !.emailAccountId = AccountB]}
        containers ==
            {[id |-> 1, name |-> RuleNewsletters, emailAccountId |-> AccountB],
             [id |-> 2, name |-> RuleReceipts, emailAccountId |-> AccountA]}
        criteria ==
            {[id |-> 1, groupId |-> 1, type |-> FROM, value |-> FromBare,
              exclude |-> TRUE],
             [id |-> 2, groupId |-> 2, type |-> FROM, value |-> FromBare,
              exclude |-> TRUE]}
    IN  { [rules |-> {RuleRow(1, RuleNewsletters, 0)} \cup others,
           groups |-> containers, groupItems |-> criteria],
          [rules |-> {RuleRow(1, RuleNewsletters, 3)} \cup others,
           groups |-> containers \cup
               {[id |-> 3, name |-> RuleNewsletters, emailAccountId |-> AccountA]},
           groupItems |-> criteria] }

\* Concurrent requests for account A over the stores of two accounts; B's
\* Sender Check row of the sender is there, analyzed or not.
InitOwners ==
    /\ InitStore(OwnedStores,
                 {{[email |-> FromBare, emailAccountId |-> AccountB,
                    patternAnalyzed |-> a, lastAnalyzedAt |-> 0]} : a \in BOOLEAN},
                 {[access_token |-> "at", refresh_token |-> "rt"]})
    /\ mailbox = <<<<FromNamed>>, <<FromBare, FromNamed>>>>
    /\ allowed = MaxTriggers
    /\ patterns = <<>>
    /\ bulk = NoBulk
    /\ InitRuns
    /\ NoLinking
    /\ NoWatching

\* ------------------------------------------- linking callback: initial state
ProviderIds == {"g1", "g2", "g9"}
\* Two users, each with one linked Google account and its email account.
LinkedUsers ==
    {[id |-> UserTarget, name |-> "Tara", email |-> "tara@example.com"],
     [id |-> UserOther, name |-> "Omar", email |-> "omar@example.com"]}
LinkedAccounts ==
    {[id |-> "acc1", userId |-> UserTarget, providerAccountId |-> "g1"],
     [id |-> "acc2", userId |-> UserOther, providerAccountId |-> "g2"]}
LinkedEmailAccounts ==
    {[accountId |-> "acc1", userId |-> UserTarget,
      name |-> "Tara", email |-> "tara@example.com"],
     [accountId |-> "acc2", userId |-> UserOther,
      name |-> "Omar", email |-> "omar@example.com"]}
\* The values of the state cookie and of the state query parameter.
StateValues == {NoValue, StateOf(UserTarget), StateGarbage, StateJsonNull}
\* The values of the code query parameter.
CodeValues == {NoValue, <<"code">>}
\* What getToken answers: it throws, or returns tokens with or without an
\* id_token.
TokenAnswers == {"throws", "throws_missing_access_token", "no_id_token", "id_token"}
\* What verifyIdToken and getPayload answer: a throw, no payload, or a
\* payload whose sub and email may be missing.
Tickets ==
    {[kind |-> k, sub |-> NULL, email |-> NULL] : k \in {"throws", "no_payload"}}
    \cup {[kind |-> "payload", sub |-> s, email |-> e] :
            s \in ProviderIds \cup {NULL}, e \in {NULL, "omar@example.com"}}

\* Callback requests of one browser; no trigger request is sent.
InitLinking ==
    /\ InitStore({[rules |-> {RuleRow(1, RuleNewsletters, 0)},
                   groups |-> {}, groupItems |-> {}]},
                 {{}},
                 {[access_token |-> "at", refresh_token |-> "rt"]})
    /\ mailbox = <<>>
    /\ allowed = 0
    /\ patterns = <<>>
    /\ bulk = NoBulk
    /\ InitRuns
    /\ NoWatching
    /\ users = LinkedUsers
    /\ accounts = LinkedAccounts
    /\ emailAccounts = LinkedEmailAccounts
    /\ cookie \in StateValues
    /\ callback = [c \in Callbacks |-> NoCallback]

\* ---------------------------------------------- watchAllEmails: initial state
\* An email account as the query selects it: the user pays, has AI access
\* (the answer of hasAiAccess) or not, the account's tokens, the date.
WatchRow(email, premium, ai, at, rt, date) ==
    [email |-> email, premium |-> premium, aiAccess |-> ai,
     access_token |-> at, refresh_token |-> rt,
     watchEmailsExpirationDate |-> date]
\* The kinds of email account: to be watched; without AI access with a past,
\* a future or no date; without a refresh or an access token; of a user who
\* does not pay.
WatchProfiles(email) ==
    { WatchRow(email, TRUE, TRUE, "at", "rt", PastDate),
      WatchRow(email, TRUE, FALSE, "at", "rt", PastDate),
      WatchRow(email, TRUE, FALSE, "at", "rt", FutureDate),
      WatchRow(email, TRUE, FALSE, "at", "rt", NoDate),
      WatchRow(email, TRUE, TRUE, "at", NULL, NoDate),
      WatchRow(email, TRUE, TRUE, NULL, "rt", FutureDate),
      WatchRow(email, FALSE, FALSE, "at", "rt", PastDate) }

\* One call of watchAllEmails over up to MaxAccounts email accounts; no
\* trigger and no callback request is sent.
InitWatching ==
    /\ account = [access_token |-> "at", refresh_token |-> "rt"]
    /\ rules = {RuleRow(1, RuleNewsletters, 0)}
    /\ groups = {}
    /\ groupItems = {}
    /\ newsletter = {}
    /\ now = WatchNow
    /\ store0 = [rules |-> rules, groups |-> groups, groupItems |-> groupItems,
                 newsletter |-> newsletter]
    /\ mailbox = <<>>
    /\ allowed = 0
    /\ patterns = <<>>
    /\ bulk = NoBulk
    /\ InitRuns
    /\ NoLinking
    /\ \E n \in 1..MaxAccounts :
          \E f \in [1..n -> UNION {WatchProfiles(e) : e \in 1..n}] :
              /\ \A e \in 1..n : f[e].email = e
              /\ watchRows = {f[e] : e \in 1..n}
    /\ watch = [NoWatch EXCEPT !.pc = "findMany"]
\* ----------------------------------------------------------------- history
\* The Sender Check row of (acct, sender) is there with analyzed = true.
LedgerClosed(acct) ==
    \E n \in newsletter :
        n.email = <<SenderAddr>> /\ n.emailAccountId = acct /\ n.patternAnalyzed

\* The rule `name` of acct has a container holding the sender's criterion.
PatternStored(acct, name) ==
    \E x \in rules :
        /\ x.name = name /\ x.emailAccountId = acct /\ x.groupId # 0
        /\ \E i \in groupItems :
               i.groupId = x.groupId /\ i.type = FROM /\ i.value = <<SenderAddr>>

Count(r, f) == hist' = [hist EXCEPT ![r][f] = @ + 1]

\* ----------------------------------------------------------------- actions
Finish(r, o, e) ==
    /\ pc' = [pc EXCEPT ![r] = "done"]
    /\ UNCHANGED lastAnalyzedAt
    /\ outcome' = [outcome EXCEPT ![r] = o]
    /\ error' = [error EXCEPT ![r] = e]

\* The run goes on to its next await. The call of savePatternCheck, line
\* 156, builds the arguments of the upsert before it awaits it: new Date(),
\* line 192 and 198, is read in the step that makes the call.
Goto(r, p) ==
    /\ pc' = [pc EXCEPT ![r] = p]
    /\ lastAnalyzedAt' = IF p = "savePatternCheck"
                            THEN [lastAnalyzedAt EXCEPT ![r] = now]
                            ELSE lastAnalyzedAt
    /\ UNCHANGED <<outcome, error>>

\* Mutant: the sender is handed to process() as it was given.
POST_RawFrom(r, keyValid, body) ==
    /\ pc[r] = "idle"
    /\ r <= allowed
    /\ \A q \in Requests : q < r => pc[q] # "idle"
    /\ IF ~keyValid
       THEN /\ response' = [response EXCEPT ![r] = "invalid_api_key"]
            /\ Finish(r, "not_started", "none")
            /\ UNCHANGED <<reqAccountId, from>>
       ELSE IF ~SchemaAccepts(body)
            THEN /\ response' = [response EXCEPT ![r] = "thrown"]
                 /\ Finish(r, "not_started", "schema")
                 /\ UNCHANGED <<reqAccountId, from>>
            ELSE /\ response' = [response EXCEPT ![r] = "processing"]
                 /\ reqAccountId' = [reqAccountId EXCEPT ![r] = body.emailAccountId.value]
                 /\ from' = [from EXCEPT ![r] = body.from.value]
                 /\ Goto(r, "getEmailAccount")
    /\ hist' = [hist EXCEPT ![r].keyValid = keyValid,
                           ![r].body = IF keyValid THEN body ELSE NoBody]
    /\ UNCHANGED <<store, env, locals, store0>>

\* Mutant: the shared-secret check is missing.
POST_NoKeyCheck(r, keyValid, body) ==
    /\ pc[r] = "idle"
    /\ r <= allowed
    /\ \A q \in Requests : q < r => pc[q] # "idle"
    /\ IF ~SchemaAccepts(body)
       THEN /\ response' = [response EXCEPT ![r] = "thrown"]
            /\ Finish(r, "not_started", "schema")
            /\ UNCHANGED <<reqAccountId, from>>
       ELSE /\ response' = [response EXCEPT ![r] = "processing"]
            /\ reqAccountId' = [reqAccountId EXCEPT ![r] = body.emailAccountId.value]
            /\ from' = [from EXCEPT ![r] = extractEmailAddress(body.from.value)]
            /\ Goto(r, "getEmailAccount")
    /\ hist' = [hist EXCEPT ![r].keyValid = keyValid,
                           ![r].body = IF keyValid THEN body ELSE NoBody]
    /\ UNCHANGED <<store, env, locals, store0>>

\* POST: the shared-secret check, schema.parse of the body (which throws out
\* of the handler on a body that does not fit), then process() is scheduled
\* with after() and the request is answered at once.
POST(r, keyValid, body) ==
    /\ pc[r] = "idle"
    /\ r <= allowed
    /\ \A q \in Requests : q < r => pc[q] # "idle"
    /\ IF ~keyValid
       THEN /\ response' = [response EXCEPT ![r] = "invalid_api_key"]
            /\ Finish(r, "not_started", "none")
            /\ UNCHANGED <<reqAccountId, from>>
       ELSE IF ~SchemaAccepts(body)
            THEN /\ response' = [response EXCEPT ![r] = "thrown"]
                 /\ Finish(r, "not_started", "schema")
                 /\ UNCHANGED <<reqAccountId, from>>
            ELSE /\ response' = [response EXCEPT ![r] = "processing"]
                 /\ reqAccountId' = [reqAccountId EXCEPT ![r] = body.emailAccountId.value]
                 /\ from' = [from EXCEPT ![r] = extractEmailAddress(body.from.value)]
                 /\ Goto(r, "getEmailAccount")
    /\ hist' = [hist EXCEPT ![r].keyValid = keyValid,
                           ![r].body = IF keyValid THEN body ELSE NoBody]
    /\ UNCHANGED <<store, env, locals, store0>>

\* process, line 63-68: await getEmailAccountWithRules.
GetEmailAccount(r) ==
    /\ pc[r] = "getEmailAccount"
    /\ LET ea == getEmailAccountWithRules(reqAccountId[r])
       IN  /\ emailAccount' = [emailAccount EXCEPT ![r] = ea]
           /\ IF ea = NoAccount
              THEN Finish(r, "account_not_found", "none")
              ELSE Goto(r, "findCheck")
    /\ UNCHANGED <<store, env, request, hist, store0>>
    /\ UNCHANGED <<threads, idx, collected, threadsWithMessages, patternResult,
                   rule, groupId>>

\* Mutant: the ledger check tests nothing.
AlreadyAnalyzed_Dropped(r) == FALSE

\* The ledger check of process, line 71-80.
AlreadyAnalyzed(r) ==
    PatternAnalyzed(extractEmailAddress(from[r]), emailAccount[r].id)

\* Mutant: the credentials check is missing.
FindCheck_NoCredentialsCheck(r) ==
    /\ pc[r] = "findCheck"
    /\ IF PatternAnalyzed(extractEmailAddress(from[r]), emailAccount[r].id)
       THEN Finish(r, "already_analyzed", "none")
       ELSE Goto(r, "getGmailClient")
    /\ hist' = [hist EXCEPT
                  ![r].ledgerAtCheck =
                      IF LedgerClosed(reqAccountId[r]) THEN "closed" ELSE "open",
                  ![r].checkedAt = now]
    /\ UNCHANGED <<store, env, request, locals, store0>>

\* process, line 70-90: await prisma.newsletter.findUnique, then the ledger
\* check and the credentials check.
FindCheck(r) ==
    /\ pc[r] = "findCheck"
    /\ IF AlreadyAnalyzed(r)
       THEN Finish(r, "already_analyzed", "none")
       ELSE IF emailAccount[r].access_token = NULL
               \/ emailAccount[r].refresh_token = NULL
            THEN Finish(r, "no_credentials", "none")
            ELSE Goto(r, "getGmailClient")
    /\ hist' = [hist EXCEPT
                  ![r].ledgerAtCheck =
                      IF LedgerClosed(reqAccountId[r]) THEN "closed" ELSE "open",
                  ![r].checkedAt = now]
    /\ UNCHANGED <<store, env, request, locals, store0>>

\* process, line 92-97: await getGmailClientWithRefresh.
GetGmailClient(r) ==
    /\ pc[r] = "getGmailClient"
    /\ Goto(r, "getThreads")
    /\ UNCHANGED <<store, env, request, locals, hist, store0>>

\* Mutant: the volume gate is missing.
AfterThreads_NoGate(r, result) ==
    /\ threadsWithMessages' = [threadsWithMessages EXCEPT ![r] = result]
    /\ IF Len(result) = 0
       THEN Finish(r, "no_threads", "none")
       ELSE Goto(r, "oracle")

\* Mutant: an empty result records the check.
AfterThreads_RecordsCheck(r, result) ==
    /\ threadsWithMessages' = [threadsWithMessages EXCEPT ![r] = result]
    /\ IF Len(result) = 0
       THEN Goto(r, "savePatternCheck")
       ELSE IF Len(Flatten(result)) < THRESHOLD_EMAILS
            THEN Finish(r, "below_threshold", "none")
            ELSE Goto(r, "oracle")

\* What process does with the result of getThreadsFromSender, line 100-131.
AfterThreads(r, result) ==
    /\ threadsWithMessages' = [threadsWithMessages EXCEPT ![r] = result]
    /\ IF Len(result) = 0
       THEN Finish(r, "no_threads", "none")
       ELSE IF Len(Flatten(result)) < THRESHOLD_EMAILS
            THEN Finish(r, "below_threshold", "none")
            ELSE Goto(r, "oracle")

\* getThreads (@/utils/gmail/thread) as the mail provider answers it: the
\* threads that match the query, the first maxResults of them.
getThreads(q, maxResults) == Take(Matching(mailbox, q, 1), maxResults)

\* Mutant: the search is issued without the cap, and the provider applies
\* its own page size.
getThreadsArgs_NoCap(r) ==
    [query |-> Query(extractEmailAddress(from[r])), maxResults |-> 100]

\* process, line 100-104, and getThreadsFromSender, line 214-220: the
\* arguments getThreads is called with, the query built from the address of
\* the sender and MAX_RESULTS handed down as maxResults.
getThreadsArgs(r) ==
    [query |-> Query(extractEmailAddress(from[r])), maxResults |-> MAX_RESULTS]

\* getThreadsFromSender, line 214-222: await getThreads; the loop runs over
\* every thread of the answer, and an empty answer leaves it at once.
GetThreads(r) ==
    /\ pc[r] = "getThreads"
    /\ LET args == getThreadsArgs(r)
           found == getThreads(args.query, args.maxResults)
       IN  /\ threads' = [threads EXCEPT ![r] = found]
           /\ hist' = [hist EXCEPT ![r].getThreads = @ + 1,
                                   ![r].query = args.query,
                                   ![r].maxResults = args.maxResults]
           /\ idx' = [idx EXCEPT ![r] = 1]
           /\ collected' = [collected EXCEPT ![r] = <<>>]
           /\ IF Len(found) = 0
              THEN AfterThreads(r, <<>>)
              ELSE /\ Goto(r, "getThreadMessages")
                   /\ UNCHANGED threadsWithMessages
    /\ UNCHANGED <<store, env, request, store0>>
    /\ UNCHANGED <<emailAccount, patternResult, rule, groupId>>

\* Mutant: a conversation is left out and the loop goes on to the next thread.
GetThreadMessages_SkipsThread(r) ==
    /\ pc[r] = "getThreadMessages"
    /\ LET sender == extractEmailAddress(from[r])
           id == threads[r][idx[r]]
           messages == mailbox[id]
           pushed == IF hasOtherSenders(messages, sender)
                     THEN collected[r]
                     ELSE Append(collected[r], [threadId |-> id, messages |-> messages])
       IN  /\ collected' = [collected EXCEPT ![r] = pushed]
           /\ idx' = [idx EXCEPT ![r] = @ + 1]
           /\ IF idx[r] = Len(threads[r])
              THEN AfterThreads(r, pushed)
              ELSE /\ Goto(r, "getThreadMessages")
                   /\ UNCHANGED threadsWithMessages
    /\ Count(r, "getThreadMessages")
    /\ UNCHANGED <<store, env, request, store0>>
    /\ UNCHANGED <<emailAccount, threads, patternResult, rule, groupId>>

\* getThreadsFromSender, line 225-248: one turn of the for loop, await
\* getThreadMessages; a conversation returns [], the last thread returns the
\* collected threads.
GetThreadMessages(r) ==
    /\ pc[r] = "getThreadMessages"
    /\ LET sender == extractEmailAddress(from[r])
           id == threads[r][idx[r]]
           messages == mailbox[id]
           pushed == Append(collected[r], [threadId |-> id, messages |-> messages])
       IN  IF hasOtherSenders(messages, sender)
           THEN /\ AfterThreads(r, <<>>)
                /\ UNCHANGED <<idx, collected>>
           ELSE /\ collected' = [collected EXCEPT ![r] = pushed]
                /\ idx' = [idx EXCEPT ![r] = @ + 1]
                /\ IF idx[r] = Len(threads[r])
                   THEN AfterThreads(r, pushed)
                   ELSE /\ Goto(r, "getThreadMessages")
                        /\ UNCHANGED threadsWithMessages
    /\ Count(r, "getThreadMessages")
    /\ UNCHANGED <<store, env, request, store0>>
    /\ UNCHANGED <<emailAccount, threads, patternResult, rule, groupId>>

\* The answers of aiDetectRecurringPattern, which process hands on as they
\* are (line 146-153): no match, the name of a rule it was offered, of
\* another rule of the account, or a name that no rule of the account carries.
Verdicts(r) ==
    {NULL, RuleGone} \cup emailAccount[r].rules
    \cup {x.name : x \in {y \in rules : y.emailAccountId = reqAccountId[r]}}

\* Mutant: the check is recorded before the pattern is stored, the store
\* write being left out.
Oracle_LedgerFirst(r, matchedRule) ==
    /\ pc[r] = "oracle"
    /\ patternResult' = [patternResult EXCEPT ![r] = matchedRule]
    /\ Goto(r, "savePatternCheck")
    /\ hist' = [hist EXCEPT
                  ![r].oracle = @ + 1,
                  ![r].storedAtCall = PatternStored(reqAccountId[r], matchedRule)]
    /\ UNCHANGED <<store, env, request, store0>>
    /\ UNCHANGED <<emailAccount, threads, idx, collected, threadsWithMessages,
                   rule, groupId>>

\* process, line 136-153: await aiDetectRecurringPattern; a match calls
\* saveLearnedPattern.
Oracle(r, matchedRule) ==
    /\ pc[r] = "oracle"
    /\ patternResult' = [patternResult EXCEPT ![r] = matchedRule]
    /\ IF matchedRule # NULL THEN Goto(r, "findRule") ELSE Goto(r, "savePatternCheck")
    /\ hist' = [hist EXCEPT
                  ![r].oracle = @ + 1,
                  ![r].storedAtCall = PatternStored(reqAccountId[r], matchedRule)]
    /\ UNCHANGED <<store, env, request, store0>>
    /\ UNCHANGED <<emailAccount, threads, idx, collected, threadsWithMessages,
                   rule, groupId>>

\* Mutant: a missing rule is raised as an error.
FindRule_Throws(r) ==
    /\ pc[r] = "findRule"
    /\ LET found == RuleRows(patternResult[r], reqAccountId[r])
       IN  IF found = {}
           THEN /\ Finish(r, "failed", "rule_not_found")
                /\ UNCHANGED <<rule, groupId>>
           ELSE LET row == CHOOSE x \in found : TRUE
                IN  /\ rule' = [rule EXCEPT ![r] = row.id]
                    /\ groupId' = [groupId EXCEPT ![r] = row.groupId]
                    /\ IF row.groupId = 0
                       THEN Goto(r, "createGroup")
                       ELSE Goto(r, "upsertGroupItem")
    /\ UNCHANGED <<store, env, request, hist, store0>>
    /\ UNCHANGED <<emailAccount, threads, idx, collected, threadsWithMessages,
                   patternResult>>

\* saveLearnedPattern, line 343-360: await prisma.rule.findUnique.
FindRule(r) ==
    /\ pc[r] = "findRule"
    /\ LET found == RuleRows(patternResult[r], reqAccountId[r])
       IN  IF found = {}
           THEN /\ Goto(r, "savePatternCheck")
                /\ UNCHANGED <<rule, groupId>>
           ELSE LET row == CHOOSE x \in found : TRUE
                IN  /\ rule' = [rule EXCEPT ![r] = row.id]
                    /\ groupId' = [groupId EXCEPT ![r] = row.groupId]
                    /\ IF row.groupId = 0
                       THEN Goto(r, "createGroup")
                       ELSE Goto(r, "upsertGroupItem")
    /\ UNCHANGED <<store, env, request, hist, store0>>
    /\ UNCHANGED <<emailAccount, threads, idx, collected, threadsWithMessages,
                   patternResult>>

\* saveLearnedPattern, line 362-370: await prisma.group.create with
\* rule: { connect }.  The store refuses a second container for the rule and
\* the rejection is thrown through saveLearnedPattern into process's catch.
CreateGroup(r) ==
    /\ pc[r] = "createGroup"
    /\ LET row == CHOOSE x \in rules : x.id = rule[r]
           newId == Cardinality(groups) + 1
       IN  IF GroupCreateConflict(row)
           THEN /\ Finish(r, "failed", "unique_constraint")
                /\ UNCHANGED <<rules, groups, groupId>>
           ELSE /\ groups' = groups \cup
                      {[id |-> newId, name |-> patternResult[r],
                        emailAccountId |-> reqAccountId[r]]}
                /\ rules' = (rules \ {row}) \cup {[row EXCEPT !.groupId = newId]}
                /\ groupId' = [groupId EXCEPT ![r] = newId]
                /\ Goto(r, "upsertGroupItem")
    /\ Count(r, "groupCreate")
    /\ UNCHANGED <<account, groupItems, newsletter, now, env, request, store0>>
    /\ UNCHANGED <<emailAccount, threads, idx, collected, threadsWithMessages,
                   patternResult, rule>>

\* saveLearnedPattern, line 373-387: await prisma.groupItem.upsert.
UpsertGroupItem(r) ==
    /\ pc[r] = "upsertGroupItem"
    /\ groupItems' = GroupItemUpsert(groupItems, groupId[r], FROM, from[r])
    /\ Goto(r, "savePatternCheck")
    /\ Count(r, "groupItemUpsert")
    /\ UNCHANGED <<account, rules, groups, newsletter, now>>
    /\ UNCHANGED <<env, request, locals, store0>>

\* savePatternCheck, line 176-201: the store applies the upsert, with the
\* date the call was made with; and the return of process, line 158.
SavePatternCheck(r) ==
    /\ pc[r] = "savePatternCheck"
    /\ newsletter' = NewsletterUpsert(newsletter, from[r], reqAccountId[r],
                                      lastAnalyzedAt[r])
    /\ now' = now + 1
    /\ Finish(r, "analyzed", "none")
    /\ hist' = [hist EXCEPT ![r].newsletterUpsert = @ + 1, ![r].wroteAt = now]
    /\ UNCHANGED <<account, rules, groups, groupItems>>
    /\ UNCHANGED <<env, request, locals, store0>>

Awaits ==
    {"getEmailAccount", "findCheck", "getGmailClient", "getThreads",
     "getThreadMessages", "oracle", "findRule", "createGroup",
     "upsertGroupItem", "savePatternCheck"}

\* Mutant: the catch branch records the check as well.
Fail_RecordsCheck(r) ==
    /\ pc[r] \in Awaits
    /\ Finish(r, "failed", "collaborator")
    /\ newsletter' = NewsletterUpsert(newsletter, from[r], reqAccountId[r], now)
    /\ UNCHANGED <<account, rules, groups, groupItems, now>>
    /\ UNCHANGED <<env, request, locals, hist, store0>>

\* Mutant: the exception leaves process() uncaught.
Fail_Escapes(r) ==
    /\ pc[r] \in Awaits
    /\ Finish(r, "unhandled_rejection", "collaborator")
    /\ UNCHANGED <<store, env, request, locals, hist, store0>>

\* process, line 159-170: the awaited call throws (credential refresh,
\* provider, oracle or store failure) and the catch branch answers 500.
Fail(r) ==
    /\ pc[r] \in Awaits
    /\ Finish(r, "failed", "collaborator")
    /\ UNCHANGED <<store, env, request, locals, hist, store0>>

\* maxDuration, line 16: the platform ends a run that is still in flight.
Cancel(r) ==
    /\ pc[r] \in Awaits
    /\ Finish(r, "cancelled", "none")
    /\ UNCHANGED <<store, env, request, locals, hist, store0>>

Step(r) ==
    \/ GetEmailAccount(r)
    \/ FindCheck(r)
    \/ GetGmailClient(r)
    \/ GetThreads(r)
    \/ GetThreadMessages(r)
    \/ \E m \in Verdicts(r) : Oracle(r, m)
    \/ FindRule(r)
    \/ CreateGroup(r)
    \/ UpsertGroupItem(r)
    \/ SavePatternCheck(r)
    \/ Fail(r)
    \/ Cancel(r)

\* Outside this code the account is linked again and its tokens are stored.
Relink ==
    /\ account.access_token = NULL \/ account.refresh_token = NULL
    /\ account' = [access_token |-> "at", refresh_token |-> "rt"]
    /\ UNCHANGED <<rules, groups, groupItems, newsletter, now>>
    /\ UNCHANGED <<env, pc, lastAnalyzedAt, request, locals, outcome, error, hist, store0>>

\* The sender sends one more message: a new one-way thread of the mailbox.
Deliver ==
    /\ MessageCount(mailbox) < MaxMessages
    /\ mailbox' = Append(mailbox, <<FromNamed>>)
    /\ UNCHANGED <<allowed, patterns, bulk, linking, watching>>
    /\ UNCHANGED <<store, pc, lastAnalyzedAt, request, locals, outcome, error, hist, store0>>

\* saveLearnedPatterns, line 438 and 460: the head of the for loop takes the
\* next pattern, or the function returns when none is left.
PatternsLoop(b) ==
    [b EXCEPT !.pc = IF b.idx > Len(patterns) THEN "done" ELSE "upsertGroupItem"]

\* saveLearnedPatterns, line 407-422: await prisma.rule.findUnique.
PatternsFindRule ==
    /\ bulk.pc = "findRule"
    /\ LET found == RuleRows(bulk.ruleName, AccountA)
       IN  IF found = {}
           THEN bulk' = [bulk EXCEPT !.pc = "done"]
           ELSE LET row == CHOOSE x \in found : TRUE
                    b == [bulk EXCEPT !.rule = row.id,
                                      !.groupId = row.groupId,
                                      !.idx = 1]
                IN  bulk' = IF row.groupId = 0
                            THEN [b EXCEPT !.pc = "createGroup"]
                            ELSE PatternsLoop(b)
    /\ UNCHANGED <<mailbox, allowed, patterns, linking, watching>>
    /\ UNCHANGED <<store, pc, lastAnalyzedAt, request, locals, outcome, error, hist, store0>>

\* saveLearnedPatterns, line 424-435: await prisma.group.create; the store's
\* rejection of a second container is thrown to the caller.
PatternsCreateGroup ==
    /\ bulk.pc = "createGroup"
    /\ LET row == CHOOSE x \in rules : x.id = bulk.rule
           newId == Cardinality(groups) + 1
       IN  IF GroupCreateConflict(row)
           THEN /\ bulk' = [bulk EXCEPT !.pc = "thrown"]
                /\ UNCHANGED <<rules, groups>>
           ELSE /\ groups' = groups \cup
                      {[id |-> newId, name |-> bulk.ruleName,
                        emailAccountId |-> AccountA]}
                /\ rules' = (rules \ {row}) \cup {[row EXCEPT !.groupId = newId]}
                /\ bulk' = PatternsLoop([bulk EXCEPT !.groupId = newId])
    /\ UNCHANGED <<mailbox, allowed, patterns, linking, watching>>
    /\ UNCHANGED <<account, groupItems, newsletter, now>>
    /\ UNCHANGED <<pc, lastAnalyzedAt, request, locals, outcome, error, hist, store0>>

\* saveLearnedPatterns, line 438-459: one turn of the for loop, await
\* prisma.groupItem.upsert.
PatternsUpsertGroupItem ==
    /\ bulk.pc = "upsertGroupItem"
    /\ LET pattern == patterns[bulk.idx]
       IN  groupItems' = GroupItemUpsertExclude(groupItems, bulk.groupId,
                             pattern.type, pattern.value, pattern.exclude)
    /\ bulk' = PatternsLoop([bulk EXCEPT !.idx = @ + 1])
    /\ UNCHANGED <<mailbox, allowed, patterns, linking, watching>>
    /\ UNCHANGED <<account, rules, groups, newsletter, now>>
    /\ UNCHANGED <<pc, lastAnalyzedAt, request, locals, outcome, error, hist, store0>>

\* saveLearnedPatterns: an awaited store call throws to the caller.
PatternsFail ==
    /\ bulk.pc \in {"findRule", "createGroup", "upsertGroupItem"}
    /\ bulk' = [bulk EXCEPT !.pc = "thrown"]
    /\ UNCHANGED <<mailbox, allowed, patterns, linking, watching>>
    /\ UNCHANGED <<store, pc, lastAnalyzedAt, request, locals, outcome, error, hist, store0>>


\* ------------------------------------------------ linking callback: actions
notLinking ==
    <<store, mailbox, allowed, patterns, bulk, watching, pc, lastAnalyzedAt, request, locals,
      outcome, error, hist, store0>>

\* GET, line 146-164: the catch branch answers with the error code of the
\* message and deletes the cookie (again).
Catch(c, message) ==
    callback' = [callback EXCEPT ![c].pc = "responded",
                                 ![c].result = ErrorCode(message),
                                 ![c].deletesCookie = TRUE]

\* A return after line 44: the redirect carries response.headers.
Return(c, result) ==
    callback' = [callback EXCEPT ![c].pc = "responded", ![c].result = result]

\* GET, line 12-54: the request arrives with the browser's cookie; the state
\* check, the decoding of the state, the deletion of the cookie on the
\* response, the code check.  A state that decodes to null makes line 46
\* throw out of the handler: the response object is dropped with its headers.
Receive(c, code, receivedState) ==
    /\ callback[c].pc = "unsent"
    /\ \A d \in Callbacks : d < c => callback[d].pc # "unsent"
    /\ LET storedState == cookie
           decodedState == JSONParse(Base64UrlDecode(storedState))
           req == [callback[c] EXCEPT !.code = code,
                                      !.receivedState = receivedState,
                                      !.storedState = storedState]
       IN  callback' = [callback EXCEPT ![c] =
             IF Falsy(storedState) \/ Falsy(receivedState)
                \/ storedState # receivedState
             THEN [req EXCEPT !.pc = "responded", !.result = "invalid_state",
                              !.deletesCookie = TRUE]
             ELSE IF ~decodedState.ok
             THEN [req EXCEPT !.pc = "responded",
                              !.result = "invalid_state_format",
                              !.deletesCookie = TRUE]
             ELSE IF decodedState.kind = "null"
             THEN [req EXCEPT !.pc = "responded", !.result = "thrown"]
             ELSE IF Falsy(code)
             THEN [req EXCEPT !.pc = "responded", !.result = "missing_code",
                              !.deletesCookie = TRUE,
                              !.targetUserId = decodedState.userId]
             ELSE [req EXCEPT !.pc = "getToken", !.deletesCookie = TRUE,
                              !.targetUserId = decodedState.userId]]
    /\ UNCHANGED <<users, accounts, emailAccounts, cookie>>
    /\ UNCHANGED notLinking

\* GET, line 57-62: await googleAuth.getToken(code).
GetToken(c, answer) ==
    /\ callback[c].pc = "getToken"
    /\ IF answer = "throws" THEN Catch(c, MsgOther)
       ELSE IF answer = "throws_missing_access_token"
       THEN Catch(c, MsgMissingAccessToken)
       ELSE IF answer = "no_id_token" THEN Catch(c, MsgMissingIdToken)
       ELSE callback' = [callback EXCEPT ![c].pc = "verifyIdToken"]
    /\ UNCHANGED <<users, accounts, emailAccounts, cookie>>
    /\ UNCHANGED notLinking

\* GET, line 64-87: await googleAuth.verifyIdToken, getPayload, the sub and
\* email claims.
VerifyIdToken(c, ticket) ==
    /\ callback[c].pc = "verifyIdToken"
    /\ IF ticket.kind # "payload" THEN Catch(c, MsgVerification)
       ELSE IF ticket.sub = NULL \/ ticket.email = NULL
       THEN callback' = [callback EXCEPT ![c].pc = "responded",
                                         ![c].result = ErrorCode(MsgIncomplete),
                                         ![c].deletesCookie = TRUE,
                                         ![c].verified = TRUE,
                                         ![c].providerAccountId = ticket.sub,
                                         ![c].providerEmail = ticket.email]
       ELSE callback' = [callback EXCEPT ![c].pc = "findUnique",
                                         ![c].verified = TRUE,
                                         ![c].providerAccountId = ticket.sub,
                                         ![c].providerEmail = ticket.email]
    /\ UNCHANGED <<users, accounts, emailAccounts, cookie>>
    /\ UNCHANGED notLinking

\* GET, line 89-116: await prisma.account.findUnique; no account, or the
\* account of the target user, ends the request.
FindUnique(c, throws) ==
    /\ callback[c].pc = "findUnique"
    /\ LET existingAccount == FindAccount(callback[c].providerAccountId)
       IN  IF throws THEN Catch(c, MsgOther)
           ELSE IF existingAccount = NoExisting
           THEN Return(c, "account_not_found_for_merge")
           ELSE IF existingAccount.userId = callback[c].targetUserId
           THEN Return(c, "already_linked_to_self")
           ELSE callback' = [callback EXCEPT
                               ![c].pc = "transaction",
                               ![c].existingAccount = existingAccount]
    /\ UNCHANGED <<users, accounts, emailAccounts, cookie>>
    /\ UNCHANGED notLinking

\* Mutant: the three writes are made one after the other without a
\* transaction: a failure leaves the first one applied.
Transaction_NotAtomic(c, fails) ==
    /\ callback[c].pc = "transaction"
    /\ LET existingAccount == callback[c].existingAccount
           targetUserId == callback[c].targetUserId
       IN  IF fails \/ ~MergeRowsExist(existingAccount)
           THEN /\ Catch(c, MsgOther)
                /\ accounts' = AccountUpdate(accounts, existingAccount.id, targetUserId)
                /\ UNCHANGED <<users, emailAccounts>>
           ELSE /\ accounts' = AccountUpdate(accounts, existingAccount.id, targetUserId)
                /\ emailAccounts' =
                       EmailAccountUpdate(emailAccounts, existingAccount.id,
                           targetUserId, existingAccount.user.name,
                           existingAccount.user.email)
                /\ users' = UserDelete(users, existingAccount.userId)
                /\ Return(c, "account_merged")
    /\ UNCHANGED cookie
    /\ UNCHANGED notLinking

\* GET, line 121-145: await prisma.$transaction of the three writes.  A write
\* that does not find its row, or a failure of the store, rolls the
\* transaction back and throws into the catch branch.
Transaction(c, fails) ==
    /\ callback[c].pc = "transaction"
    /\ LET existingAccount == callback[c].existingAccount
           targetUserId == callback[c].targetUserId
       IN  IF fails \/ ~MergeRowsExist(existingAccount)
           THEN /\ Catch(c, MsgOther)
                /\ UNCHANGED <<users, accounts, emailAccounts>>
           ELSE /\ accounts' = AccountUpdate(accounts, existingAccount.id, targetUserId)
                /\ emailAccounts' =
                       EmailAccountUpdate(emailAccounts, existingAccount.id,
                           targetUserId, existingAccount.user.name,
                           existingAccount.user.email)
                /\ users' = UserDelete(users, existingAccount.userId)
                /\ Return(c, "account_merged")
    /\ UNCHANGED cookie
    /\ UNCHANGED notLinking

\* The browser receives the answer and applies the deletion it carries.
BrowserReceives(c) ==
    /\ callback[c].pc = "responded"
    /\ callback' = [callback EXCEPT ![c].pc = "closed"]
    /\ cookie' = IF callback[c].deletesCookie THEN NoValue ELSE cookie
    /\ UNCHANGED <<users, accounts, emailAccounts>>
    /\ UNCHANGED notLinking

\* Callback requests of one browser, interleaved at the awaits.
NextLinking ==
    \E c \in Callbacks :
        \/ \E code \in CodeValues, receivedState \in StateValues :
              Receive(c, code, receivedState)
        \/ \E answer \in TokenAnswers : GetToken(c, answer)
        \/ \E ticket \in Tickets : VerifyIdToken(c, ticket)
        \/ \E throws \in BOOLEAN : FindUnique(c, throws)
        \/ \E fails \in BOOLEAN : Transaction(c, fails)
        \/ BrowserReceives(c)


\* --------------------------------------------------- watchAllEmails: actions
notWatching ==
    <<store, mailbox, allowed, patterns, bulk, linking, pc, lastAnalyzedAt, request, locals,
      outcome, error, hist, store0>>

\* The for loop goes on to the next account.
Continue(w) == [w EXCEPT !.pc = "loop", !.i = @ + 1]

\* Mutant: the exception leaves the loop.
WatchCatch_Rethrows(w) == [w EXCEPT !.pc = "thrown", !.caught = @ + 1]

\* watchAllEmails, line 277-295: the catch inside the loop body logs the
\* error, as a warning or as an error, and the loop goes on.
WatchCatch(w) == Continue([w EXCEPT !.caught = @ + 1])

\* watchAllEmails, line 184-218: await prisma.ea.findMany; a
\* rejection here is outside the loop's try and leaves the function.
WatchFindMany(throws) ==
    /\ watch.pc = "findMany"
    /\ IF throws
       THEN watch' = [watch EXCEPT !.pc = "thrown"]
       ELSE \E result \in FindMany(watchRows) :
               watch' = [watch EXCEPT !.pc = "loop", !.emailAccounts = result,
                                      !.i = 1]
    /\ UNCHANGED watchRows
    /\ UNCHANGED notWatching

\* watchAllEmails, line 220-267 and 298: the next turn of the for loop up to
\* its first await, or the return after the last account.
WatchVisit ==
    /\ watch.pc = "loop"
    /\ IF watch.i > Len(watch.emailAccounts)
       THEN watch' = [watch EXCEPT !.pc = "done"]
       ELSE LET ea == watch.emailAccounts[watch.i]
                w == [watch EXCEPT !.visited = Append(@, ea.email)]
            IN  IF ~ea.aiAccess
                THEN IF /\ ea.watchEmailsExpirationDate # NoDate
                        /\ ea.watchEmailsExpirationDate < now
                     THEN watch' = [w EXCEPT !.pc = "update"]
                     ELSE watch' = Continue(w)
                ELSE IF \/ ea.access_token = NULL
                        \/ ea.refresh_token = NULL
                     THEN watch' = Continue(w)
                     ELSE watch' = [w EXCEPT !.pc = "getGmailClient"]
    /\ UNCHANGED watchRows
    /\ UNCHANGED notWatching

\* watchAllEmails, line 240-246: await prisma.ea.update, which sets
\* the date of the row of this email to null.
WatchUpdate(throws) ==
    /\ watch.pc = "update"
    /\ LET ea == watch.emailAccounts[watch.i]
       IN  IF throws
           THEN /\ watch' = WatchCatch(watch)
                /\ UNCHANGED watchRows
           ELSE /\ watchRows' =
                      {IF x.email = ea.email
                       THEN [x EXCEPT !.watchEmailsExpirationDate = NoDate]
                       ELSE x : x \in watchRows}
                /\ watch' = Continue([watch EXCEPT
                                !.cleared = Append(@, ea.email)])
    /\ UNCHANGED notWatching

\* watchAllEmails, line 269-274: await getGmailClientWithRefresh.
WatchGetGmailClient(throws) ==
    /\ watch.pc = "getGmailClient"
    /\ watch' = IF throws THEN WatchCatch(watch)
                ELSE [watch EXCEPT !.pc = "watchEmails"]
    /\ UNCHANGED watchRows
    /\ UNCHANGED notWatching

\* watchAllEmails, line 276: await watchEmails for this account. What
\* watchEmails (@/app/api/google/watch/controller, line 171) does to the
\* store is not decided by this code: the row of the account is left as it
\* is or holds a new expiration date, whether the call returns or throws.
WatchEmails(throws, stores) ==
    /\ watch.pc = "watchEmails"
    /\ LET ea == watch.emailAccounts[watch.i]
           w == [watch EXCEPT !.watched = Append(@, ea.email)]
       IN  /\ watch' = IF throws THEN WatchCatch(w) ELSE Continue(w)
           /\ watchRows' =
                 IF stores
                 THEN {IF x.email = ea.email
                       THEN [x EXCEPT !.watchEmailsExpirationDate = FutureDate]
                       ELSE x : x \in watchRows}
                 ELSE watchRows
    /\ UNCHANGED notWatching

\* One call of watchAllEmails.
NextWatching ==
    \/ \E throws \in BOOLEAN : WatchFindMany(throws)
    \/ WatchVisit
    \/ \E throws \in BOOLEAN : WatchUpdate(throws)
    \/ \E throws \in BOOLEAN : WatchGetGmailClient(throws)
    \/ \E throws, stores \in BOOLEAN : WatchEmails(throws, stores)

\* A request arrives, its sender given in one of the forms `raws`.
Trigger(r, raws) == \E k \in BOOLEAN, b \in Bodies(raws) : POST(r, k, b)

\* Concurrent requests give the sender with its display name.
Next ==
    \E r \in Requests :
        \/ Trigger(r, {FromNamed})
        \/ Step(r)

\* A single request gives the sender in either form.
NextOne ==
    \E r \in Requests :
        \/ Trigger(r, {FromBare, FromNamed})
        \/ Step(r)

\* Requests while mail arrives and the account is linked again.
NextRetry ==
    \/ \E r \in Requests :
          \/ Trigger(r, {FromNamed})
          \/ Step(r)
    \/ Relink
    \/ Deliver

\* A request and a call of saveLearnedPatterns, interleaved at the awaits.
NextPatterns ==
    \/ \E r \in Requests :
          \/ Trigger(r, {FromNamed})
          \/ Step(r)
    \/ PatternsFindRule
    \/ PatternsCreateGroup
    \/ PatternsUpsertGroupItem
    \/ PatternsFail

Spec == Init /\ [][Next]_vars
SpecPatterns == InitPatterns /\ [][NextPatterns]_vars
SpecRetry == InitRetry /\ [][NextRetry]_vars
SpecRules == InitRules /\ [][Next]_vars
SpecFanOut == InitFanOut /\ [][Next]_vars
\* Every await of a run comes back, with a result or an exception, or the
\* platform ends the run at maxDuration: a run that can step does step.
SpecLive == InitLive /\ [][Next]_vars /\ \A r \in Requests : WF_vars(Step(r))
SpecOne == InitOne /\ [][NextOne]_vars
SpecVerdicts == InitVerdicts /\ [][Next]_vars
SpecOwners == InitOwners /\ [][Next]_vars
SpecLinking == InitLinking /\ [][NextLinking]_vars
SpecWatching == InitWatching /\ [][NextWatching]_vars
\* ================================================================== claims
NoProviderOrOracleCall(r) ==
    hist[r].getThreads = 0 /\ hist[r].getThreadMessages = 0 /\ hist[r].oracle = 0
NoStoreWrite(r) ==
    /\ hist[r].newsletterUpsert = 0
    /\ hist[r].groupCreate = 0
    /\ hist[r].groupItemUpsert = 0

\* C1: a run whose ledger check finds the Sender Check row of its (account,
\* sender) with analyzed = true makes no call to the mail provider, no call to
\* the oracle and no write to the Sender Check, container or criterion stores.
C1_AnalyzedSenderIsNoOp ==
    \A r \in Requests :
        hist[r].ledgerAtCheck = "closed" =>
            /\ NoProviderOrOracleCall(r)
            /\ NoStoreWrite(r)
            /\ pc[r] = "done"
            /\ outcome[r] = "already_analyzed"

\* A re-trigger: one run has closed the ledger and a later run of the same
\* pair has read it closed and ended.
C1_Witness ==
    \E r, q \in Requests :
        /\ r # q
        /\ outcome[q] = "analyzed"
        /\ hist[r].checkedAt > hist[q].wroteAt
        /\ hist[r].ledgerAtCheck = "closed"
        /\ outcome[r] = "already_analyzed"
\* C2 as claimed: over all triggers of one (account, sender), concurrent ones
\* included, at most one run invokes the oracle.
C2_AtMostOneOracleRun ==
    \A r, q \in Requests :
        (/\ hist[r].oracle > 0 /\ hist[q].oracle > 0
         /\ reqAccountId[r] = reqAccountId[q] /\ from[r] = from[q]) => r = q

\* C2, amended: once a run has written the Sender Check row of the pair, no
\* run whose ledger check comes after that write invokes the oracle.
C2_NoOracleAfterLedgerWrite ==
    \A r, q \in Requests :
        (/\ r # q
         /\ hist[q].wroteAt > 0
         /\ hist[r].checkedAt > hist[q].wroteAt) => hist[r].oracle = 0

\* A run invoked the oracle and closed the ledger; a later run checked the
\* ledger after that write and has ended.
C2_Witness ==
    \E r, q \in Requests :
        /\ r # q
        /\ hist[q].oracle = 1
        /\ hist[q].wroteAt > 0
        /\ hist[r].checkedAt > hist[q].wroteAt
        /\ pc[r] = "done"
AllEnded == \A x \in Requests : pc[x] \in {"idle", "done"}
NoOutsideFault ==
    \A x \in Requests : error[x] # "collaborator" /\ outcome[x] # "cancelled"
MatchedNewsletters(r) ==
    /\ hist[r].oracle = 1
    /\ reqAccountId[r] = AccountA
    /\ patternResult[r] = RuleNewsletters
ContainersOf(name, acct) ==
    {g \in groups : g.name = name /\ g.emailAccountId = acct}

\* C3: two or more runs of the same new (account, sender) reach the oracle
\* with a match on the same rule, the rule having no container before; once
\* all runs have ended (none cut short by a collaborator failure or a
\* cancellation) there is exactly one Sender Check row for the pair and exactly
\* one container for the rule, linked to it, created by exactly one run.
C3_OneCheckRowOneContainer ==
    (/\ AllEnded
     /\ NoOutsideFault
     /\ store0.groups = {}
     /\ \E r, q \in Requests :
            r # q /\ MatchedNewsletters(r) /\ MatchedNewsletters(q))
    => /\ Cardinality(NewsletterRows(<<SenderAddr>>, AccountA)) = 1
       /\ Cardinality(ContainersOf(RuleNewsletters, AccountA)) = 1
       /\ \A x \in RuleRows(RuleNewsletters, AccountA) :
              \E g \in groups : g.id = x.groupId
       /\ Cardinality({r \in Requests :
              hist[r].groupCreate = 1 /\ error[r] # "unique_constraint"}) = 1

\* Both runs found the rule without a container and both called group.create.
C3_Witness ==
    /\ AllEnded
    /\ NoOutsideFault
    /\ store0.groups = {}
    /\ \E r, q \in Requests :
           /\ r # q /\ MatchedNewsletters(r) /\ MatchedNewsletters(q)
           /\ hist[r].groupCreate = 1 /\ hist[q].groupCreate = 1
\* C4: a persistence race never surfaces as an error: a run that called
\* group.create or groupItem.upsert and was not cut short by a collaborator
\* failure or a cancellation does not end in the catch branch and goes on to
\* write the Sender Check row.
C4_RaceNeverFails ==
    \A r \in Requests :
        (/\ pc[r] = "done"
         /\ hist[r].groupCreate + hist[r].groupItemUpsert > 0
         /\ error[r] # "collaborator"
         /\ outcome[r] # "cancelled")
        => /\ outcome[r] = "analyzed"
           /\ hist[r].newsletterUpsert = 1
\* C5: a run whose oracle call returned (and that no collaborator failure or
\* cancellation cut short afterwards) ends with the Sender Check row of its
\* pair at analyzed = true, match or no match; and after a no-match answer
\* the run creates no container and no criterion.
C5_OracleReturnClosesLedger ==
    \A r \in Requests :
        /\ (/\ pc[r] = "done"
            /\ hist[r].oracle = 1
            /\ error[r] # "collaborator"
            /\ outcome[r] # "cancelled")
           => LedgerClosed(reqAccountId[r])
        /\ (hist[r].oracle = 1 /\ patternResult[r] = NULL)
           => hist[r].groupCreate = 0 /\ hist[r].groupItemUpsert = 0

\* Some thread holds a message that is not the sender's.
HasConversation(m) ==
    \E i \in 1..Len(m) : \E j \in 1..Len(m[i]) : m[i][j] = FromOther

ValidCredentials == account.access_token # NULL /\ account.refresh_token # NULL

\* C6: valid credentials, only one-way threads with at least 3 messages, the
\* oracle answers with the existing rule Newsletters, which has no container:
\* after the run there is exactly one container, named after the rule and
\* linked to it, holding exactly one criterion {FROM, sender address,
\* exclude = false}, and the Sender Check row of the pair has analyzed = true.
C6_NewsletterScenario ==
    \A r \in Requests :
        (/\ pc[r] = "done"
         /\ response[r] = "processing"
         /\ reqAccountId[r] = AccountA
         /\ ValidCredentials
         /\ ~HasConversation(mailbox)
         /\ MessageCount(mailbox) >= 3
         /\ store0.groups = {}
         /\ \A n \in store0.newsletter : ~n.patternAnalyzed
         /\ error[r] # "collaborator"
         /\ outcome[r] # "cancelled"
         /\ (hist[r].oracle = 1 => patternResult[r] = RuleNewsletters))
        => /\ hist[r].oracle = 1
           /\ \E g \in groups :
                 /\ groups = {g}
                 /\ g.name = RuleNewsletters
                 /\ g.emailAccountId = AccountA
                 /\ \A x \in RuleRows(RuleNewsletters, AccountA) : x.groupId = g.id
                 /\ \E i \in groupItems :
                        /\ groupItems = {i}
                        /\ i.groupId = g.id
                        /\ i.type = FROM
                        /\ i.value = <<SenderAddr>>
                        /\ i.exclude = FALSE
           /\ Cardinality(NewsletterRows(<<SenderAddr>>, AccountA)) = 1
           /\ LedgerClosed(AccountA)

\* The scenario has run to its end: the sender was given with a display name,
\* the mailbox holds three one-way messages in two threads.
C6_Witness ==
    \E r \in Requests :
        /\ outcome[r] = "analyzed"
        /\ patternResult[r] = RuleNewsletters
        /\ hist[r].groupCreate = 1
        /\ store0.groups = {}
        /\ Len(mailbox) = 2
        /\ MessageCount(mailbox) = 3

\* C7: when the fetched threads hold fewer than 3 messages in total, the run
\* does not invoke the oracle, writes no Sender Check row and no criterion.
C7_BelowThresholdNoAnalysis ==
    MessageCount(Take(mailbox, MAX_RESULTS)) < 3 =>
        \A r \in Requests :
            /\ hist[r].oracle = 0
            /\ hist[r].newsletterUpsert = 0
            /\ hist[r].groupItemUpsert = 0
            /\ newsletter = store0.newsletter
            /\ groupItems = store0.groupItems

\* Two one-way messages were fetched and the run has ended at the volume gate.
C7_Witness ==
    \E r \in Requests :
        /\ outcome[r] = "below_threshold"
        /\ MessageCount(mailbox) = 2
        /\ hist[r].getThreadMessages = Len(mailbox)
\* getThreadsFromSender has returned to process.
FetchReturned(r) ==
    \/ pc[r] \in {"oracle", "findRule", "createGroup", "upsertGroupItem",
                  "savePatternCheck"}
    \/ outcome[r] \in {"no_threads", "below_threshold", "analyzed"}

Fetched == Take(mailbox, MAX_RESULTS)

\* C8: if any fetched thread, at any position, holds a message of another
\* address, getThreadsFromSender returns the empty list and the run makes no
\* oracle call and writes no Sender Check row, container or criterion;
\* otherwise it returns every fetched thread with all its messages.
C8_ConversationDiscardsSender ==
    \A r \in Requests :
        /\ HasConversation(Fetched) =>
              /\ FetchReturned(r) => threadsWithMessages[r] = <<>>
              /\ hist[r].oracle = 0
              /\ NoStoreWrite(r)
        /\ (~HasConversation(Fetched) /\ FetchReturned(r)) =>
              threadsWithMessages[r] =
                  [i \in 1..Len(Fetched) |-> [threadId |-> i, messages |-> Fetched[i]]]

\* A one-way thread had been collected when a later thread turned out to be a
\* conversation: the result is empty all the same.
C8_Witness ==
    \E r \in Requests :
        /\ outcome[r] = "no_threads"
        /\ hist[r].getThreadMessages >= 2
        /\ collected[r] # <<>>
        /\ threadsWithMessages[r] = <<>>

\* C9: a run that fails or is cancelled has not written the Sender Check row;
\* the row is at analyzed = true only if it was so before the first request
\* or some run ended its analysis; and a run that reads the ledger open is
\* not skipped by the ledger check.
C9_FailedRunLeavesLedgerOpen ==
    /\ \A r \in Requests :
          outcome[r] \in {"failed", "cancelled"} =>
              hist[r].newsletterUpsert = 0 /\ hist[r].wroteAt = 0
    /\ LedgerClosed(AccountA) =>
          \/ \E n \in store0.newsletter : n.patternAnalyzed
          \/ \E q \in Requests : outcome[q] = "analyzed"
    /\ (\A q \in Requests : outcome[q] # "analyzed") =>
          newsletter = store0.newsletter
    /\ \A r \in Requests :
          hist[r].ledgerAtCheck = "open" => outcome[r] # "already_analyzed"

\* A run failed at the ledger write, after the oracle and the Pattern Store;
\* another run of the pair made the analysis (again) and closed the ledger.
C9_Witness ==
    \E r, q \in Requests :
        /\ r # q
        /\ outcome[q] = "failed"
        /\ error[q] = "collaborator"
        /\ hist[q].oracle = 1
        /\ hist[q].groupItemUpsert = 1
        /\ hist[r].oracle = 1
        /\ outcome[r] = "analyzed"

\* The criterion rows of (container of the rule, FROM, sender address).
CriteriaOf(name, acct) ==
    {i \in groupItems :
        /\ i.type = FROM /\ i.value = <<SenderAddr>>
        /\ \E x \in RuleRows(name, acct) : x.groupId # 0 /\ i.groupId = x.groupId}

C10_Step ==
    /\ PatternStored(AccountA, RuleNewsletters) =>
          /\ rules' = rules
          /\ groups' = groups
          /\ groupItems' = groupItems
    /\ PatternStored(AccountA, RuleNewsletters)' =>
          /\ Cardinality(CriteriaOf(RuleNewsletters, AccountA))' = 1
          /\ Cardinality(ContainersOf(RuleNewsletters, AccountA))' = 1

\* C10: saveLearnedPattern is idempotent: once a call has stored the pattern
\* (rule, FROM, sender address), no step of a later call with the same
\* arguments changes the rule, container or criterion stores, and there is
\* exactly one criterion row of (container, FROM, value) and exactly one
\* container of the rule.
C10_SaveLearnedPatternIdempotent == [][C10_Step]_vars

\* A first call created the container and the criterion; a second call with
\* the same arguments, begun when the pattern was stored, has completed.
C10_Witness ==
    \E r, q \in Requests :
        /\ r # q
        /\ hist[q].groupCreate = 1
        /\ hist[q].groupItemUpsert = 1
        /\ patternResult[r] = RuleNewsletters
        /\ hist[r].storedAtCall
        /\ hist[r].groupItemUpsert = 1

\* The run read an account without an access token or a refresh token.
ReadNoTokens(r) ==
    /\ emailAccount[r].id # NULL
    /\ emailAccount[r].access_token = NULL \/ emailAccount[r].refresh_token = NULL
\* The run read an account with both tokens.
ReadTokens(r) ==
    /\ emailAccount[r].id # NULL
    /\ emailAccount[r].access_token # NULL
    /\ emailAccount[r].refresh_token # NULL
OutsideFault(r) == error[r] = "collaborator" \/ outcome[r] = "cancelled"

\* C11: a run that read the account without an access token or without a
\* refresh token makes no mail-provider call and no oracle call and writes no
\* Sender Check row (nor a container or criterion), and ends "no credentials"
\* when the ledger was open; as long as runs only end that way the Sender
\* Check rows are as they were, so a run that reads the ledger open and the
\* account with both tokens is stopped neither by the ledger check nor by
\* the credentials check.
C11_NoCredentialsLeavesLedgerOpen ==
    /\ \A r \in Requests :
          ReadNoTokens(r) =>
              /\ NoProviderOrOracleCall(r)
              /\ NoStoreWrite(r)
              /\ (pc[r] = "done" /\ hist[r].ledgerAtCheck = "open" /\ ~OutsideFault(r))
                    => outcome[r] = "no_credentials"
    /\ (\A q \in Requests :
            outcome[q] \in {"none", "not_started", "account_not_found", "no_credentials"}
            \/ OutsideFault(q))
          => newsletter = store0.newsletter
    /\ \A r \in Requests :
          (ReadTokens(r) /\ hist[r].ledgerAtCheck = "open")
              => outcome[r] \notin {"no_credentials", "already_analyzed"}

\* A run ended for want of credentials; the account was linked again and a
\* later trigger of the same pair made the analysis and closed the ledger.
C11_Witness ==
    \E r, q \in Requests :
        /\ r # q
        /\ outcome[q] = "no_credentials"
        /\ ReadNoTokens(q)
        /\ ReadTokens(r)
        /\ hist[r].oracle = 1
        /\ outcome[r] = "analyzed"
        /\ LedgerClosed(AccountA)

\* What the thread search of run r returned (mail is only ever added, at the
\* end of the mailbox).
Seen(r) == SubSeq(mailbox, 1, Len(threads[r]))

\* C12: a run that completes early for insufficient evidence (zero threads
\* or a conversation, fewer than 3 messages) has made no oracle call and has
\* written no Sender Check row, container or criterion, and a run writes the
\* row only after its oracle call; so a run that reads the ledger open and
\* the account with both tokens, and is not cut short from outside, queries
\* the mail provider.  A run whose search returned at least 3 messages in
\* one-way threads only goes on to the oracle, and once every run has ended
\* without an outside fault, an oracle call having been made, the Sender
\* Check row is at analyzed = true.
C12_EarlyCompletionIsRetried ==
    /\ \A r \in Requests :
          /\ outcome[r] \in {"no_threads", "below_threshold"} =>
                hist[r].oracle = 0 /\ NoStoreWrite(r)
          /\ hist[r].newsletterUpsert > 0 => hist[r].oracle = 1
          /\ (/\ ReadTokens(r) /\ hist[r].ledgerAtCheck = "open"
              /\ pc[r] = "done" /\ ~OutsideFault(r)) => hist[r].getThreads = 1
          /\ (/\ FetchReturned(r)
              /\ MessageCount(Seen(r)) >= THRESHOLD_EMAILS
              /\ ~HasConversation(Seen(r)))
             => pc[r] = "oracle" \/ hist[r].oracle = 1
    /\ (\A q \in Requests : hist[q].oracle = 0) => newsletter = store0.newsletter
    /\ (AllEnded /\ NoOutsideFault /\ \E r \in Requests : hist[r].oracle = 1)
          => LedgerClosed(AccountA)

\* A trigger found too few messages and completed early; more mail arrived
\* and the next trigger of the pair queried the provider again, reached the
\* oracle and closed the ledger.
C12_Witness ==
    \E r, q \in Requests :
        /\ r # q
        /\ outcome[q] = "below_threshold"
        /\ hist[q].getThreads = 1
        /\ hist[r].getThreads = 1
        /\ Len(threads[r]) > Len(threads[q])
        /\ hist[r].oracle = 1
        /\ outcome[r] = "analyzed"
        /\ LedgerClosed(AccountA)

\* C13: when the rule named by the oracle does not exist for the account,
\* saveLearnedPattern creates no container and no criterion and raises
\* nothing, and the run, unless cut short from outside, completes by writing
\* the Sender Check row with analyzed = true.
C13_MissingRuleIsSkipped ==
    \A r \in Requests :
        (/\ hist[r].oracle = 1
         /\ patternResult[r] # NULL
         /\ RuleRows(patternResult[r], reqAccountId[r]) = {})
        => /\ pc[r] \notin {"createGroup", "upsertGroupItem"}
           /\ hist[r].groupCreate = 0
           /\ hist[r].groupItemUpsert = 0
           /\ error[r] \in {"none", "collaborator"}
           /\ (pc[r] = "done" /\ ~OutsideFault(r)) =>
                 /\ outcome[r] = "analyzed"
                 /\ hist[r].newsletterUpsert = 1
                 /\ LedgerClosed(reqAccountId[r])

\* The oracle named a rule the account does not have; the run has ended and
\* the ledger is closed, the container and criterion stores being as before.
C13_Witness ==
    \E r \in Requests :
        /\ patternResult[r] = RuleGone
        /\ outcome[r] = "analyzed"
        /\ hist[r].newsletterUpsert = 1
        /\ groups = store0.groups
        /\ groupItems = store0.groupItems
        /\ LedgerClosed(AccountA)

SameKey(i, gid, type, value) ==
    i.groupId = gid /\ i.type = type /\ i.value = value

C14_Step ==
    /\ \A r \in Requests :
          (/\ pc[r] = "upsertGroupItem"
           /\ hist'[r].groupItemUpsert = hist[r].groupItemUpsert + 1
           /\ \E i \in groupItems : SameKey(i, groupId[r], FROM, from[r]))
          => groupItems' = groupItems
    /\ (bulk.pc = "upsertGroupItem" /\ bulk'.idx = bulk.idx + 1) =>
          LET p == patterns[bulk.idx]
          IN  /\ \E i \in groupItems' :
                    /\ SameKey(i, bulk.groupId, p.type, p.value)
                    /\ i.exclude = (p.exclude = "true")
              /\ \A i \in groupItems :
                    \/ i \in groupItems'
                    \/ SameKey(i, bulk.groupId, p.type, p.value)
    /\ \A i, j \in groupItems' :
          SameKey(i, j.groupId, j.type, j.value) => i = j

\* C14: a groupItem.upsert of saveLearnedPattern on a criterion (container,
\* kind, value) that exists leaves the criterion rows as they are, whatever
\* the exclude flag; a groupItem.upsert of saveLearnedPatterns leaves the
\* criterion of its pattern with the exclude flag of the pattern (false when
\* omitted) and the other criteria as they are; and after every step there
\* is at most one row per (container, kind, value).
C14_OverwritePolicies == [][C14_Step]_vars

\* The sender's criterion was stored as an exclusion; saveLearnedPatterns
\* has set its flag to false, and saveLearnedPattern, called on the stored
\* criterion, has made its upsert.
C14_Witness ==
    /\ bulk.pc = "done"
    /\ \E i \in store0.groupItems :
          /\ i.exclude
          /\ \E j \in groupItems :
                SameKey(j, i.groupId, i.type, i.value) /\ ~j.exclude
    /\ \E r \in Requests : hist[r].storedAtCall /\ hist[r].groupItemUpsert = 1

\* No background run was scheduled for the request.
NeverStarted(r) ==
    /\ pc[r] = "done"
    /\ outcome[r] = "not_started"
    /\ emailAccount[r] = NoAccount
    /\ hist[r].ledgerAtCheck = "unread"
    /\ NoProviderOrOracleCall(r)
    /\ NoStoreWrite(r)
\* One background run was scheduled for the request: it makes each of its
\* calls at most once.
OneRun(r) ==
    /\ outcome[r] # "not_started"
    /\ hist[r].getThreads <= 1
    /\ hist[r].oracle <= 1
    /\ hist[r].groupCreate <= 1
    /\ hist[r].groupItemUpsert <= 1
    /\ hist[r].newsletterUpsert <= 1

\* C15 as claimed: a request failing the shared-secret check is answered
\* with the authorization error and no run is scheduled; every other request
\* is answered "processing" and exactly one run is scheduled for it.
C15_AcceptedOrUnauthorized ==
    \A r \in Requests :
        pc[r] # "idle" =>
            IF ~hist[r].keyValid
            THEN response[r] = "invalid_api_key" /\ NeverStarted(r)
            ELSE response[r] = "processing" /\ OneRun(r)

\* C15, amended: a request failing the shared-secret check is answered with
\* the authorization error and no run is scheduled; a request that passes it
\* with a body schema.parse rejects makes POST throw, and no run is
\* scheduled; every other request is answered "processing" and exactly one
\* run is scheduled for it, however that run ends.
C15_AcceptedUnauthorizedOrRejected ==
    \A r \in Requests :
        pc[r] # "idle" =>
            IF ~hist[r].keyValid
            THEN response[r] = "invalid_api_key" /\ NeverStarted(r)
            ELSE IF ~SchemaAccepts(hist[r].body)
                 THEN response[r] = "thrown" /\ NeverStarted(r)
                 ELSE response[r] = "processing" /\ OneRun(r)

\* One request passed the key check with a body without `from` and was not
\* scheduled; another was accepted although its run ended in the catch branch.
C15_Witness ==
    \E r, q \in Requests :
        /\ hist[q].keyValid
        /\ hist[q].body.from = Undefined
        /\ response[q] = "thrown"
        /\ hist[r].keyValid
        /\ response[r] = "processing"
        /\ outcome[r] = "failed"

\* The sender string the request carried.
Raw(r) == hist[r].body.from.value

\* C16: for a scheduled run, the sender handed to process() is the bare
\* address of the string the request carried, and normalizing it again (as
\* the ledger check and the thread search do) gives the same; the Sender
\* Check row the run writes and the criterion it stores carry that address;
\* and a run of the same raw sender and account whose ledger check follows
\* that write finds the row and is skipped.
C16_OneNormalizedKey ==
    /\ \A r \in Requests :
          response[r] = "processing" =>
              LET key == extractEmailAddress(Raw(r))
              IN  /\ key = <<SenderAddr>>
                  /\ from[r] = key
                  /\ extractEmailAddress(from[r]) = key
                  /\ hist[r].newsletterUpsert = 1 =>
                        \E n \in newsletter :
                            /\ n.email = key
                            /\ n.emailAccountId = reqAccountId[r]
                            /\ n.patternAnalyzed
                  /\ hist[r].groupItemUpsert = 1 =>
                        \E i \in groupItems :
                            i.groupId = groupId[r] /\ i.type = FROM /\ i.value = key
                  /\ \A q \in Requests :
                        (/\ q # r
                         /\ response[q] = "processing"
                         /\ Raw(q) = Raw(r)
                         /\ reqAccountId[q] = reqAccountId[r]
                         /\ emailAccount[q] # NoAccount
                         /\ hist[r].wroteAt > 0
                         /\ hist[q].checkedAt > hist[r].wroteAt)
                        => outcome[q] = "already_analyzed"
    /\ \A n \in newsletter : n.email = <<SenderAddr>>
    /\ \A i \in groupItems : i.type = FROM => i.value = <<SenderAddr>>

\* The sender was given with a display name; a run stored its criterion and
\* wrote the Sender Check row under the bare address, and a later trigger
\* carrying the same string found the row.
C16_Witness ==
    \E r, q \in Requests :
        /\ r # q
        /\ Raw(r) = FromNamed
        /\ Raw(q) = FromNamed
        /\ hist[r].groupItemUpsert = 1
        /\ hist[r].newsletterUpsert = 1
        /\ hist[q].checkedAt > hist[r].wroteAt
        /\ outcome[q] = "already_analyzed"

\* The rules of the account that are enabled and carry non-empty instructions.
InstructedRules(acct) ==
    {x.name : x \in {y \in rules :
        /\ y.emailAccountId = acct
        /\ y.enabled
        /\ y.instructions # NULL
        /\ y.instructions # ""}}

\* C17: the candidate rules a run offers to the oracle are exactly the rules
\* of the account that are enabled and carry non-empty instructions.
C17_OnlyInstructedRulesOffered ==
    \A r \in Requests :
        (pc[r] = "oracle" \/ hist[r].oracle = 1) =>
            emailAccount[r].rules = InstructedRules(reqAccountId[r])

\* C18: a run makes at most one thread search; the search asks for the
\* threads of the sender's address, without display name, and carries
\* maxResults = MAX_RESULTS; the answer holds at most that many threads; the
\* run makes at most one getThreadMessages call per returned thread, each
\* for another thread, in the order returned; a search that returns no
\* thread ends the fetch with the empty list and no error; and a run that
\* has begun the fetch and ended before the oracle without an outside fault
\* has the list the fetch returned.
C18_FanOutBoundedByMaxResults ==
    \A r \in Requests :
        /\ hist[r].getThreads <= 1
        /\ hist[r].getThreads = 1 =>
              /\ hist[r].maxResults = MAX_RESULTS
              /\ hist[r].query =
                    Query(extractEmailAddress(hist[r].body.from.value))
        /\ Len(threads[r]) <= hist[r].maxResults
        /\ Len(threads[r]) <= MAX_RESULTS
        /\ hist[r].getThreadMessages <= Len(threads[r])
        /\ hist[r].getThreadMessages <= MAX_RESULTS
        /\ pc[r] = "getThreadMessages" => idx[r] = hist[r].getThreadMessages + 1
        /\ \A i, j \in 1..Len(threads[r]) :
              threads[r][i] = threads[r][j] => i = j
        /\ (hist[r].getThreads = 1 /\ Len(mailbox) = 0) =>
              /\ outcome[r] = "no_threads"
              /\ error[r] = "none"
              /\ threadsWithMessages[r] = <<>>
              /\ hist[r].getThreadMessages = 0
        /\ (/\ pc[r] = "done" /\ hist[r].getThreads = 1 /\ hist[r].oracle = 0
            /\ ~OutsideFault(r))
           => /\ FetchReturned(r)
              /\ error[r] = "none"

\* The mailbox holds more threads than the search asked for; the search
\* carried maxResults = MAX_RESULTS, the run fetched the messages of
\* MAX_RESULTS threads and the fetch returned them.
C18_Witness ==
    \E r \in Requests :
        /\ Len(mailbox) > MAX_RESULTS
        /\ hist[r].getThreads = 1
        /\ hist[r].maxResults = MAX_RESULTS
        /\ hist[r].getThreadMessages = MAX_RESULTS
        /\ FetchReturned(r)
        /\ Len(threadsWithMessages[r]) = MAX_RESULTS

SameSenderCheck(n, m) == n.email = m.email /\ n.emailAccountId = m.emailAccountId

C19_Step ==
    /\ \A n, m \in newsletter' : SameSenderCheck(n, m) => n = m
    /\ \A n \in newsletter :
          \E m \in newsletter' :
              /\ SameSenderCheck(n, m)
              /\ n.patternAnalyzed => m.patternAnalyzed

\* C19: after every step, whatever the interleaving of the runs, there is at
\* most one Sender Check row per (account, sender); a row that exists before
\* a step exists after it, and with analyzed = true if it had analyzed = true.
C19_SenderCheckRowIsMonotonic == [][C19_Step]_vars

\* The row existed, not analyzed; two runs read it so and both wrote it, the
\* second write updating the row of the first, and one row is there.
C19_Witness ==
    /\ store0.newsletter # {}
    /\ \E r, q \in Requests :
          /\ r # q
          /\ hist[r].wroteAt > 0
          /\ hist[q].wroteAt > hist[r].wroteAt
    /\ Cardinality(NewsletterRows(<<SenderAddr>>, AccountA)) = 1
    /\ LedgerClosed(AccountA)

\* The ways process() returns.
TerminalOutcomes ==
    {"account_not_found", "already_analyzed", "no_credentials", "no_threads",
     "below_threshold", "analyzed", "failed"}

\* A run that has ended, the platform not having ended it, has one of the
\* terminal outcomes; it has the failure outcome exactly when an exception
\* was thrown in it, whichever collaborator threw.
C20_Ended ==
    \A r \in Requests :
        (pc[r] = "done" /\ response[r] = "processing" /\ outcome[r] # "cancelled")
        => /\ outcome[r] \in TerminalOutcomes
           /\ outcome[r] = "failed" <=> error[r] # "none"
           /\ error[r] \in {"none", "collaborator", "unique_constraint"}

\* A run that has ended stays ended, with the outcome it has.
C20_Step ==
    \A r \in Requests :
        pc[r] = "done" => pc'[r] = "done" /\ outcome'[r] = outcome[r]

\* C20: every scheduled run of process() ends, in exactly one terminal
\* outcome that never changes afterwards, and every exception thrown in it
\* by a collaborator or the store is turned into the failure outcome.
C20_RunEndsInOneOutcome ==
    /\ []C20_Ended
    /\ [][C20_Step]_vars
    /\ \A r \in Requests : (response[r] = "processing") ~> (pc[r] = "done")

\* One run ended in the catch branch on the store's rejection of a second
\* container, another on a collaborator's exception thrown after the oracle.
C20_Witness ==
    \E r, q \in Requests :
        /\ r # q
        /\ outcome[r] = "failed" /\ error[r] = "unique_constraint"
        /\ outcome[q] = "failed" /\ error[q] = "collaborator"
        /\ hist[q].oracle = 1

\* The rule the oracle named exists for the run's account.
MatchedExistingRule(r) ==
    /\ hist[r].oracle = 1
    /\ patternResult[r] # NULL
    /\ RuleRows(patternResult[r], reqAccountId[r]) # {}

\* C21: the steps of a run come in the order ledger check, thread search and
\* conversation check of every returned thread, volume gate, oracle call,
\* Pattern Store write (only on a match), ledger write, the ledger write being
\* the last; so whenever a run that matched an existing rule has written the
\* Sender Check row, the row is at analyzed = true and the container of the
\* rule holds the sender's criterion.
C21_StepsInOrder ==
    \A r \in Requests :
        /\ hist[r].getThreads > 0 => hist[r].ledgerAtCheck = "open"
        /\ hist[r].getThreadMessages > 0 => hist[r].getThreads = 1
        /\ (pc[r] = "oracle" \/ hist[r].oracle > 0) =>
              /\ hist[r].getThreads = 1
              /\ hist[r].getThreadMessages = Len(threads[r])
              /\ \A i \in 1..Len(threadsWithMessages[r]) :
                    ~hasOtherSenders(threadsWithMessages[r][i].messages, from[r])
              /\ Len(Flatten(threadsWithMessages[r])) >= THRESHOLD_EMAILS
        /\ hist[r].groupCreate + hist[r].groupItemUpsert > 0 =>
              hist[r].oracle = 1 /\ patternResult[r] # NULL
        /\ pc[r] \in Awaits => hist[r].newsletterUpsert = 0
        /\ hist[r].newsletterUpsert > 0 =>
              /\ outcome[r] = "analyzed"
              /\ hist[r].oracle = 1
              /\ patternResult[r] = NULL =>
                    hist[r].groupCreate = 0 /\ hist[r].groupItemUpsert = 0
              /\ MatchedExistingRule(r) =>
                    /\ hist[r].groupItemUpsert = 1
                    /\ LedgerClosed(reqAccountId[r])
                    /\ PatternStored(reqAccountId[r], patternResult[r])

\* A run went through every step: it read the ledger open, fetched the
\* threads, matched the rule, created its container, stored the criterion
\* and wrote the Sender Check row.
C21_Witness ==
    \E r \in Requests :
        /\ hist[r].ledgerAtCheck = "open"
        /\ hist[r].getThreadMessages = 2
        /\ patternResult[r] = RuleNewsletters
        /\ hist[r].groupCreate = 1
        /\ hist[r].groupItemUpsert = 1
        /\ hist[r].newsletterUpsert = 1
        /\ PatternStored(AccountA, RuleNewsletters)
        /\ LedgerClosed(AccountA)

RECURSIVE FirstConversation(_, _)
\* Position of the first thread of m, from position i on, that holds a
\* message of another address than the sender's; 0 if there is none.
FirstConversation(m, i) ==
    IF i > Len(m) THEN 0
    ELSE IF \E j \in 1..Len(m[i]) : extractEmailAddress(m[i][j]) # <<SenderAddr>>
         THEN i
         ELSE FirstConversation(m, i + 1)

\* C22: getThreadsFromSender examines the threads one at a time in the order
\* the search returned them: the k-th getThreadMessages call is for the k-th
\* thread, and what is collected are the threads before it, in order, none a
\* conversation.  When the k-th returned thread is the first conversation,
\* the k-th call is the last one: the fetch returns the empty list and no
\* call is made for the threads after it.
C22_FirstConversationShortCircuits ==
    \A r \in Requests :
        hist[r].getThreads = 1 =>
            LET k == FirstConversation(Fetched, 1)
                n == hist[r].getThreadMessages
            IN  /\ threads[r] = [i \in 1..Len(Fetched) |-> i]
                /\ pc[r] = "getThreadMessages" => idx[r] = n + 1
                /\ Len(collected[r]) <= n
                /\ \A i \in 1..Len(collected[r]) :
                      /\ collected[r][i].threadId = threads[r][i]
                      /\ collected[r][i].messages = Fetched[i]
                      /\ ~hasOtherSenders(Fetched[i], <<SenderAddr>>)
                /\ k > 0 =>
                      /\ n <= k
                      /\ Len(collected[r]) = IF n = k THEN k - 1 ELSE n
                      /\ n = k => pc[r] = "done" /\ threadsWithMessages[r] = <<>>
                      /\ (pc[r] = "done" /\ ~OutsideFault(r)) =>
                            n = k /\ outcome[r] = "no_threads"
                /\ k = 0 => Len(collected[r]) = n

\* The first thread returned was a conversation and another thread followed
\* it: one getThreadMessages call was made and the fetch returned empty.
C22_Witness ==
    \E r \in Requests :
        /\ Len(threads[r]) >= 2
        /\ FirstConversation(Fetched, 1) = 1
        /\ hist[r].getThreadMessages = 1
        /\ outcome[r] = "no_threads"
        /\ threadsWithMessages[r] = <<>>

\* The rules of acct whose container holds the sender's criterion.
RulesHoldingSender(acct) ==
    {x.name : x \in {y \in rules :
        y.emailAccountId = acct /\ PatternStored(acct, y.name)}}

\* C23: after any sequence and interleaving of triggers for one (account,
\* sender), runs that fail after the Pattern Store write and concurrent runs
\* with different oracle verdicts included, the sender's address is a
\* sender-address-match criterion in the container of at most one rule of
\* the account.
C23_SenderInAtMostOneRule ==
    Cardinality(RulesHoldingSender(AccountA)) <= 1

\* The rows of a store that are not account A's.
NotOfA(rows) == {x \in rows : x.emailAccountId # AccountA}
\* The containers linked to the rules of A that a run has matched.
MatchedContainers ==
    {x.groupId : x \in {y \in rules :
        /\ y.emailAccountId = AccountA
        /\ y.groupId # 0
        /\ \E r \in Requests :
              reqAccountId[r] = AccountA /\ patternResult[r] = y.name}}

\* C24: the runs triggered for account A create or modify only Sender Check
\* rows keyed by A, containers owned by A and linked to a rule of A, and
\* criteria in the container of the rule they matched: the Sender Check
\* rows, rules and containers of the other account are as they were before
\* the first request, no criterion that was there is changed or removed, and
\* every new criterion is in the container of a rule of A that a run matched.
C24_WritesStayInOwnAccount ==
    /\ NotOfA(newsletter) = NotOfA(store0.newsletter)
    /\ NotOfA(rules) = NotOfA(store0.rules)
    /\ NotOfA(groups) = NotOfA(store0.groups)
    /\ store0.groups \subseteq groups
    /\ \A g \in groups \ store0.groups :
          /\ g.emailAccountId = AccountA
          /\ \E x \in rules :
                x.emailAccountId = AccountA /\ x.groupId = g.id /\ x.name = g.name
          /\ \A x \in rules : x.groupId = g.id => x.emailAccountId = AccountA
    /\ \A x \in rules :
          \E y \in store0.rules :
              /\ [x EXCEPT !.groupId = 0] = [y EXCEPT !.groupId = 0]
              /\ x.groupId # y.groupId => y.groupId = 0
    /\ store0.groupItems \subseteq groupItems
    /\ \A i \in groupItems \ store0.groupItems :
          /\ i.groupId \in MatchedContainers
          /\ i.type = FROM
          /\ i.value = <<SenderAddr>>
    /\ \A r \in Requests :
          (hist[r].ledgerAtCheck = "open" /\ pc[r] = "done" /\ ~OutsideFault(r))
              => outcome[r] # "already_analyzed"

\* B's stores hold a rule of the same name, the sender's criterion and the
\* sender's row; a run for A created A's container, stored the criterion in
\* it and wrote A's row, and another matched A's rule Receipts.
C24_Witness ==
    /\ \E n \in newsletter : n.emailAccountId = AccountB /\ n.email = <<SenderAddr>>
    /\ LedgerClosed(AccountA)
    /\ \E g \in groups \ store0.groups : g.emailAccountId = AccountA
    /\ groupItems # store0.groupItems
    /\ \E r, q \in Requests :
          /\ patternResult[r] = RuleNewsletters /\ outcome[r] = "analyzed"
          /\ patternResult[q] = RuleReceipts /\ hist[q].groupItemUpsert = 1

\* What GET has checked of a request before its merge transaction.
MergeConditions(c) ==
    LET cb == callback[c]
    IN  /\ ~Falsy(cb.storedState)
        /\ cb.storedState = cb.receivedState
        /\ JSONParse(Base64UrlDecode(cb.storedState)).ok
        /\ ~Falsy(cb.code)
        /\ cb.verified
        /\ cb.providerAccountId # NULL
        /\ cb.providerEmail # NULL
        /\ cb.existingAccount # NoExisting
        /\ cb.existingAccount.userId # cb.targetUserId

\* A request is at the transaction, or was answered "merged", only with
\* all the checks passed.
C25_Checked ==
    \A c \in Callbacks :
        (callback[c].pc = "transaction" \/ callback[c].result = "account_merged")
            => MergeConditions(c)

\* A step changes a user, account or email-account row only as the
\* transaction of one request, which then applies its three writes together
\* and is answered "merged"; and a request is answered "merged" only so.
C25_Step ==
    LET merges(c) ==
            LET ex == callback[c].existingAccount
                target == callback[c].targetUserId
            IN  /\ callback[c].pc = "transaction"
                /\ MergeConditions(c)
                /\ callback'[c].result = "account_merged"
                /\ \E a \in accounts : a.id = ex.id /\ a.userId = ex.userId
                /\ \E a \in accounts' : a.id = ex.id /\ a.userId = target
                /\ \E e \in emailAccounts' :
                      /\ e.accountId = ex.id /\ e.userId = target
                      /\ e.name = ex.user.name /\ e.email = ex.user.email
                /\ \E u \in users : u.id = ex.userId
                /\ \A u \in users' : u.id # ex.userId
                /\ \A d \in Callbacks \ {c} : callback'[d] = callback[d]
    IN  /\ <<users, accounts, emailAccounts>>' # <<users, accounts, emailAccounts>>
           => \E c \in Callbacks : merges(c)
        /\ \A c \in Callbacks :
              (callback'[c].result = "account_merged"
               /\ callback[c].result # "account_merged") => merges(c)

\* C25: the merge transaction of the linking callback runs only for a
\* request whose state cookie is present and equal to the received state and
\* decodes, whose code is present, whose ID token was verified and carries
\* sub and email, and whose account was found with a user other than the
\* target user; no other step changes an account, email-account or user
\* row; and the three writes of the merge are applied all together or not
\* at all.
C25_MergeOnlyWhenVerified == []C25_Checked /\ [][C25_Step]_vars

\* One request merged the account of the other user into the target user;
\* a concurrent request with the same state, which had read the account
\* before, ran its transaction on rows that were gone: it was rolled back.
C25_Witness ==
    \E c, d \in Callbacks :
        /\ c # d
        /\ callback[c].result = "account_merged"
        /\ callback[d].existingAccount # NoExisting
        /\ callback[d].result = "link_failed"
        /\ \A u \in users : u.id = UserTarget
        /\ \A a \in accounts : a.userId = UserTarget
        /\ \A e \in emailAccounts : e.userId = UserTarget

\* The handler returned a response to the request.
Answered(c) ==
    callback[c].pc \in {"responded", "closed"} /\ callback[c].result # "thrown"
\* The state the request carried passed the state check and was decoded.
StateAccepted(c) ==
    /\ callback[c].pc # "unsent"
    /\ callback[c].result \notin {"invalid_state", "invalid_state_format", "thrown"}

\* Every response the handler returns carries the deletion of the cookie.
EveryAnswerDeletesCookie ==
    \A c \in Callbacks : Answered(c) => callback[c].deletesCookie

\* C26: every response the linking callback returns, on the success path and
\* on every error path, carries the deletion of the state cookie, and a
\* state value is accepted by at most one callback request.
C26_StateAcceptedOnce ==
    /\ EveryAnswerDeletesCookie
    /\ \A c, d \in Callbacks :
          (/\ StateAccepted(c) /\ StateAccepted(d)
           /\ callback[c].storedState = callback[d].storedState) => c = d

\* The emails of the first k accounts of the query result.
FirstEmails(k) == [i \in 1..k |-> watch.emailAccounts[i].email]
\* The account of the query result with this email.
Queried(email) ==
    CHOOSE x \in {watch.emailAccounts[i] : i \in 1..Len(watch.emailAccounts)} :
        x.email = email
\* The turns of the for loop begun so far.
Turns ==
    IF watch.pc = "loop" THEN watch.i - 1
    ELSE IF watch.pc = "done" THEN Len(watch.emailAccounts)
    ELSE watch.i

\* Once the query has returned: its result holds every selected account
\* once, in the order of the dates; the accounts visited are the first ones
\* of the result, in its order, each once, and all of them when the call
\* returns, whatever was caught; watchEmails was called only for accounts
\* with AI access and both tokens; a date was cleared only for accounts
\* without AI access whose date was in the past.
C27_Visited ==
    /\ watch.pc = "thrown" => watch.visited = <<>> /\ watch.caught = 0
    /\ watch.pc \in {"loop", "update", "getGmailClient", "watchEmails", "done"} =>
          /\ Len(watch.emailAccounts) = Cardinality(Selected(watchRows))
          /\ \A x \in Selected(watchRows) :
                \E i \in 1..Len(watch.emailAccounts) :
                    watch.emailAccounts[i].email = x.email
          /\ \A i, j \in 1..Len(watch.emailAccounts) :
                i < j => NullsFirstLeq(
                            watch.emailAccounts[i].watchEmailsExpirationDate,
                            watch.emailAccounts[j].watchEmailsExpirationDate)
          /\ Turns <= Len(watch.emailAccounts)
          /\ watch.visited = FirstEmails(Turns)
          /\ watch.pc = "done" => Len(watch.visited) = Cardinality(Selected(watchRows))
          /\ \A k \in 1..Len(watch.watched) :
                LET x == Queried(watch.watched[k])
                IN  /\ x.aiAccess
                    /\ x.access_token # NULL
                    /\ x.refresh_token # NULL
                    /\ \E i \in 1..Len(watch.visited) :
                          watch.visited[i] = watch.watched[k]
                    /\ \A l \in 1..Len(watch.watched) :
                          watch.watched[l] = watch.watched[k] => l = k
          /\ \A k \in 1..Len(watch.cleared) :
                LET x == Queried(watch.cleared[k])
                IN  /\ ~x.aiAccess
                    /\ x.watchEmailsExpirationDate # NoDate
                    /\ x.watchEmailsExpirationDate < now

\* A step leaves every email-account row in place, with its owner, access
\* and tokens; the date of a row becomes null only in the update of the
\* account the loop is at, which is without AI access and has its date in
\* the past, and that update changes nothing else.
C27_Step ==
    /\ Cardinality(watchRows') = Cardinality(watchRows)
    /\ \A y \in watchRows :
          \E z \in watchRows' :
              z = [y EXCEPT !.watchEmailsExpirationDate =
                                 z.watchEmailsExpirationDate]
    /\ \A y \in watchRows, z \in watchRows' :
          (/\ y.email = z.email
           /\ y.watchEmailsExpirationDate # NoDate
           /\ z.watchEmailsExpirationDate = NoDate) =>
              LET x == watch.emailAccounts[watch.i]
              IN  /\ watch.pc = "update"
                  /\ x.email = y.email
                  /\ ~x.aiAccess
                  /\ x.watchEmailsExpirationDate # NoDate
                  /\ x.watchEmailsExpirationDate < now
    /\ (watch.pc = "update" /\ watchRows' # watchRows) =>
          LET x == watch.emailAccounts[watch.i]
          IN  \A y \in watchRows :
                  IF y.email = x.email
                  THEN [y EXCEPT !.watchEmailsExpirationDate = NoDate] \in watchRows'
                  ELSE y \in watchRows'

\* C27: watchAllEmails visits every selected email account exactly once, in
\* the order of the query; an exception caught while handling one account
\* (date update, credential refresh, watchEmails) does not keep it from
\* visiting the remaining ones; watchEmails is called only for accounts with
\* AI access and both tokens; and an account's expiration date is cleared
\* only when the account is without AI access and the date is in the past.
C27_WatchAllVisitsEveryAccount == []C27_Visited /\ [][C27_Step]_vars

\* The call has returned after three accounts: two exceptions were caught on
\* the way, watchEmails was called for one account and the date of another
\* was cleared.
C27_Witness ==
    /\ watch.pc = "done"
    /\ Len(watch.visited) = 3
    /\ watch.caught >= 2
    /\ Len(watch.watched) >= 1
    /\ Len(watch.cleared) >= 1
====
